---- MODULE Spec2Model ----
(***************************************************************************)
(* jdwpfs.  Spec: the event lifecycle: debugging events (package debug)    *)
(* are created by mkdir under events/, activated and cancelled by writes   *)
(* to events/<name>/control, and each activation spawns a goroutine that   *)
(* blocks inside jdwp.Connection.WatchEvents.  SpecLinks: the location/    *)
(* and hooks/ directories of one event.  SpecFiles: its kind and           *)
(* suspendPolicy files.  SpecThreads: the thread control files.            *)
(***************************************************************************)
EXTENDS Integers, Sequences, FiniteSets, TLC

\* ------------------------------------------------------------------ bounds
MaxEvents  == 2    \* event objects ever allocated by CreateEvent
MaxTokens  == 2    \* contexts ever allocated by Run (context.WithCancel)
MaxDeliver == 1    \* JVM events delivered to one subscription
MaxHooks == 3      \* hooks loaded into one hook runner
MaxCalls   == 4    \* filesystem callbacks and event calls ever started
MaxDirs    == 2    \* location/ and hooks/ nodes ever created by Lookup
MaxLinks   == 2    \* links held by one directory node
MaxSuspend == 2    \* suspend count of one JVM thread

Threads == {1, 2}             \* concurrent filesystem callbacks
Names   == {"a", "b"}         \* event names given to mkdir

\* jdwp.EventKind / jdwp.SuspendPolicy values used by the lifecycle model
MethodEntry == 40
MethodExit  == 41
VMDeath     == 99
SuspendNone == 0
SuspendAll  == 2
Kinds    == {VMDeath, MethodEntry}
Policies == {SuspendNone, SuspendAll}

\* the keys of eventKindReprMap, as text, in the order of the source
EventKindNames ==
    << <<"S", "i", "n", "g", "l", "e", "S", "t", "e", "p">>,
       <<"B", "r", "e", "a", "k", "p", "o", "i", "n", "t">>,
       <<"F", "r", "a", "m", "e", "P", "o", "p">>,
       <<"E", "x", "c", "e", "p", "t", "i", "o", "n">>,
       <<"U", "s", "e", "r", "D", "e", "f", "i", "n", "e", "d">>,
       <<"T", "h", "r", "e", "a", "d", "S", "t", "a", "r", "t">>,
       <<"T", "h", "r", "e", "a", "d", "D", "e", "a", "t", "h">>,
       <<"C", "l", "a", "s", "s", "P", "r", "e", "p", "a", "r", "e">>,
       <<"C", "l", "a", "s", "s", "U", "n", "l", "o", "a", "d">>,
       <<"C", "l", "a", "s", "s", "L", "o", "a", "d">>,
       <<"F", "i", "e", "l", "d", "A", "c", "c", "e", "s", "s">>,
       <<"F", "i", "e", "l", "d", "M", "o", "d", "i", "f", "i", "c", "a",
        "t", "i", "o", "n">>,
       <<"E", "x", "c", "e", "p", "t", "i", "o", "n", "C", "a", "t", "c",
        "h">>,
       <<"M", "e", "t", "h", "o", "d", "E", "n", "t", "r", "y">>,
       <<"M", "e", "t", "h", "o", "d", "E", "x", "i", "t">>,
       <<"V", "M", "S", "t", "a", "r", "t">>,
       <<"V", "M", "D", "e", "a", "t", "h">> >>

\* the jdwp constants eventKindReprMap gives these keys, in the same order
EventKindValues ==
    <<1, 2, 3, 4, 5, 6, 7, 8, 9, 10, 20, 21, 30, MethodEntry, MethodExit, 90,
      VMDeath>>

\* a table that names method entry as method exit
eventKindReprMap_Swapped ==
    [n \in {EventKindNames[i] : i \in DOMAIN EventKindNames} |->
        LET v == EventKindValues[CHOOSE i \in DOMAIN EventKindNames :
                                    EventKindNames[i] = n]
        IN IF v = MethodEntry THEN MethodExit ELSE v]

\* eventKindReprMap
eventKindReprMap ==
    [n \in {EventKindNames[i] : i \in DOMAIN EventKindNames} |->
        EventKindValues[CHOOSE i \in DOMAIN EventKindNames :
                           EventKindNames[i] = n]]

\* the keys of suspendPolicyReprMap, as text, in the order of the source
SuspendPolicyNames ==
    << <<"S", "u", "s", "p", "e", "n", "d", "N", "o", "n", "e">>,
       <<"S", "u", "s", "p", "e", "n", "d", "E", "v", "e", "n", "t", "T",
        "h", "r", "e", "a", "d">>,
       <<"S", "u", "s", "p", "e", "n", "d", "A", "l", "l">> >>

\* suspendPolicyReprMap
suspendPolicyReprMap ==
    [n \in {SuspendPolicyNames[i] : i \in DOMAIN SuspendPolicyNames} |->
        <<SuspendNone, 1, SuspendAll>>[
            CHOOSE i \in DOMAIN SuspendPolicyNames :
                SuspendPolicyNames[i] = n]]

\* jdwp.EventKind.String
EventKindString(kind) ==
    CASE kind = 1 -> <<"S", "i", "n", "g", "l", "e", "S", "t", "e", "p">>
      [] kind = 2 -> <<"B", "r", "e", "a", "k", "p", "o", "i", "n", "t">>
      [] kind = 3 -> <<"F", "r", "a", "m", "e", "P", "o", "p">>
      [] kind = 4 -> <<"E", "x", "c", "e", "p", "t", "i", "o", "n">>
      [] kind = 5 -> <<"U", "s", "e", "r", "D", "e", "f", "i", "n", "e", "d">>
      [] kind = 6 -> <<"T", "h", "r", "e", "a", "d", "S", "t", "a", "r", "t">>
      [] kind = 7 -> <<"T", "h", "r", "e", "a", "d", "D", "e", "a", "t", "h">>
      [] kind = 8 -> <<"C", "l", "a", "s", "s", "P", "r", "e", "p", "a", "r",
            "e">>
      [] kind = 9 -> <<"C", "l", "a", "s", "s", "U", "n", "l", "o", "a", "d">>
      [] kind = 10 -> <<"C", "l", "a", "s", "s", "L", "o", "a", "d">>
      [] kind = 20 -> <<"F", "i", "e", "l", "d", "A", "c", "c", "e", "s",
            "s">>
      [] kind = 21 -> <<"F", "i", "e", "l", "d", "M", "o", "d", "i", "f",
            "i", "c", "a", "t", "i", "o", "n">>
      [] kind = 30 -> <<"E", "x", "c", "e", "p", "t", "i", "o", "n", "C",
            "a", "t", "c", "h">>
      [] kind = 40 -> <<"M", "e", "t", "h", "o", "d", "E", "n", "t", "r",
            "y">>
      [] kind = 41 -> <<"M", "e", "t", "h", "o", "d", "E", "x", "i", "t">>
      [] kind = 90 -> <<"V", "M", "S", "t", "a", "r", "t">>
      [] kind = 99 -> <<"V", "M", "D", "e", "a", "t", "h">>
      [] OTHER -> <<"?">>

\* jdwp.SuspendPolicy.String
SuspendPolicyString(policy) ==
    CASE policy = 0 -> <<"S", "u", "s", "p", "e", "n", "d", "N", "o", "n",
            "e">>
      [] policy = 1 -> <<"S", "u", "s", "p", "e", "n", "d", "E", "v", "e",
            "n", "t", "T", "h", "r", "e", "a", "d">>
      [] policy = 2 -> <<"S", "u", "s", "p", "e", "n", "d", "A", "l", "l">>
      [] OTHER -> <<"?">>

HookNames == {"h0"}
\* what the file system holds at a hook path: a loadable plugin exporting
\* the entrypoint, or nothing (os.Stat fails)
PathOk      == "/ok.so"
PathMissing == "/missing.so"
PathNoSym   == "/nosym.so"   \* a file plugin.Open or Lookup rejects
HookPaths == {PathOk, PathMissing, PathNoSym}

ModNames == {"m0"}
\* debug.ModifierDescriptor values
ModDescs == {[Name |-> "m0", Kind |-> 1, IsField |-> FALSE,
              ClassId |-> 42, ObjectId |-> 7],
             [Name |-> "m0", Kind |-> 1, IsField |-> TRUE,
              ClassId |-> 42, ObjectId |-> 3]}

\* syscall.Errno values returned by the callbacks
F_OK          == "F_OK"
ENAVAIL       == "ENAVAIL"
EBADE         == "EBADE"
EBADMSG       == "EBADMSG"
EADDRNOTAVAIL == "EADDRNOTAVAIL"
EROFS         == "EROFS"
ENOENT        == "ENOENT"
ENOTSUP       == "ENOTSUP"
EAFNOSUPPORT  == "EAFNOSUPPORT"
EFAULT        == "EFAULT"
EACCES        == "EACCES"
EBADF         == "EBADF"

NoCtx == 0                    \* e.ctx == nil
NoThread == 0
NoSub == -1                   \* WatchEvents has not been called

\* ------------------------------------------------------- the debugged JVM
\* jdwp.ThreadID values of the threads of the JVM
Tids == {1, 2}
\* jdwp.ClassInfo values of GetAllClasses, in listing order
JvmClasses == <<[TypeID |-> 1, Kind |-> 1], [TypeID |-> 2, Kind |-> 2]>>
\* jdwp.Method values of GetMethods, and jdwp.Field values of GetFields
JvmMethods(classId) == <<[ID |-> 7], [ID |-> 8]>>
JvmFields(classId) == <<[ID |-> 3], [ID |-> 4]>>
\* the ids and names of the threads the JVM may run
JvmThreadIds == {1, 2, 3}
ThreadNames == {"main", "worker"}
\* at most this many threads are alive at a time
MaxJvmThreads == 2
\* the JVM when the filesystem is mounted: GetAllThreads and GetAllClasses
JvmStart == [threads |-> <<[id |-> 1, name |-> "main"]>>,
             classes |-> JvmClasses]

\* ------------------------------------------------- symlink targets, as text
absoluteMountpoint == <<"/", "m">>
S_classes == <<"c", "l", "a", "s", "s", "e", "s">>
S_methods == <<"m", "e", "t", "h", "o", "d", "s">>
S_fields  == <<"f", "i", "e", "l", "d", "s">>
Sl == <<"/">>
T_method  == absoluteMountpoint \o Sl \o S_classes \o Sl \o <<"1">>
                 \o Sl \o S_methods \o Sl \o <<"7">>
T_field   == absoluteMountpoint \o Sl \o S_classes \o Sl \o <<"1">>
                 \o Sl \o S_fields \o Sl \o <<"3">>
T_outside == <<"/", "x">>
\* a directory beside the mount whose name starts with the mount's name
T_sibling == absoluteMountpoint \o S_classes \o Sl \o <<"1">>
                 \o Sl \o S_methods \o Sl \o <<"7">>
\* the mount root, and a path of two components
T_root    == absoluteMountpoint
T_class   == absoluteMountpoint \o Sl \o S_classes \o Sl \o <<"1">>
\* a class that is not loaded, and a method the class does not have
T_noclass == absoluteMountpoint \o Sl \o S_classes \o Sl \o <<"9">>
                 \o Sl \o S_methods \o Sl \o <<"7">>
T_nomethod == absoluteMountpoint \o Sl \o S_classes \o Sl \o <<"1">>
                 \o Sl \o S_methods \o Sl \o <<"9">>
LocTargets == {T_method, T_field, T_outside, T_sibling, T_root, T_class,
               T_noclass, T_nomethod}
LinkNames == {"m0", "m1"}

\* ------------------------------------------------------- control file input
\* bytes written to events/<name>/control, as sequences of characters
D_run    == <<"r", "u", "n", "\n">>
D_1      == <<"1", "\n">>
D_cancel == <<"c", "a", "n", "c", "e", "l">>
D_0      == <<"0", "\n">>
D_bad    == <<"x">>
WriteInputs == {D_run, D_1, D_cancel, D_0, D_bad}

IsSpace(c) == c \in {" ", "\n", "\t", "\r"}

RECURSIVE TrimLeft(_)
TrimLeft(s) ==
    IF s = <<>> THEN s
    ELSE IF IsSpace(Head(s)) THEN TrimLeft(Tail(s)) ELSE s

RECURSIVE TrimRight(_)
TrimRight(s) ==
    IF s = <<>> THEN s
    ELSE IF IsSpace(s[Len(s)]) THEN TrimRight(SubSeq(s, 1, Len(s) - 1)) ELSE s

\* strings.TrimSpace
TrimSpace(s) == TrimRight(TrimLeft(s))

W_run    == <<"r", "u", "n">>
W_1      == <<"1">>
W_cancel == <<"c", "a", "n", "c", "e", "l">>
W_0      == <<"0">>

\* ------------------------------------------------------------------- state
VARIABLES
    objs,              \* heap of *DebuggingEvent, indexed by allocation order
    registeredEvents,  \* EventManager.registeredEvents: sequence of object ids
    mLock,             \* EventManager.mu: [w: writer thread or 0, r: reader count]
    toks,              \* contexts allocated by Run, with their goroutine
    pc,                \* position of each filesystem callback thread
    arg,               \* locals of each filesystem callback thread
    last,              \* the call that returned most recently, with its result
    calls,             \* number of calls started so far
    dirs,              \* heap of location/ and hooks/ directory nodes
    suspendCount,      \* the JVM's suspend count of each of its threads
    vm,                \* the JVM's live threads and loaded classes, as listed
    rlocks,            \* the read locks held on events' mu: <<thread, object>>
    slices,            \* the array behind m.registeredEvents, and the slice
                       \* GetAllEvents handed to a caller
    mounted            \* the filesystem is mounted and main waits in Wait

\* the state outside the event manager and its events
\* the state of the process besides the JVM's listings
sysVars == <<rlocks, slices, mounted>>
envVars == <<vm, sysVars>>
nodeVars == <<dirs, suspendCount, envVars>>

vars == <<objs, registeredEvents, mLock, toks, pc, arg, last, calls, nodeVars>>

Objs == 1 .. Len(objs)
Toks == 1 .. Len(toks)

\* a stub that subscribes to method entry and suspends all threads
NewStubDebuggingEvent_Other(name) ==
    [Name |-> name,
     kind |-> MethodEntry,
     suspendPolicy |-> SuspendAll,
     modifierDescriptors |-> << >>,
     hookDescriptors |-> << >>,
     mu |-> NoThread,
     ctx |-> NoCtx,
     cancel |-> NoCtx]

\* debug.NewStubDebuggingEvent followed by SetConn
NewStubDebuggingEvent(name) ==
    [Name |-> name,
     kind |-> VMDeath,
     suspendPolicy |-> SuspendNone,
     modifierDescriptors |-> << >>,
     hookDescriptors |-> << >>,
     mu |-> NoThread,
     ctx |-> NoCtx,
     cancel |-> NoCtx]

NoArg == [op |-> "none", name |-> "", obj |-> 0, data |-> <<>>,
          found |-> FALSE, pre |-> FALSE, dir |-> 0]

NoLast == [op |-> "none", name |-> "", obj |-> 0, data |-> <<>>,
           pre |-> FALSE, errno |-> F_OK, written |-> 0, res |-> "",
           dir |-> 0, count |-> 0, status |-> 0, jvmOk |-> TRUE]

\* no array is allocated, no caller holds a listing
NoSlices == [array |-> <<>>, held |-> FALSE, got |-> <<>>, view |-> <<>>,
             shared |-> FALSE]

Init ==
    /\ objs = <<>>
    /\ registeredEvents = <<>>
    /\ mLock = [w |-> NoThread, r |-> 0]
    /\ toks = <<>>
    /\ pc = [t \in Threads |-> "idle"]
    /\ arg = [t \in Threads |-> NoArg]
    /\ last = NoLast
    /\ calls = 0
    /\ dirs = <<>>
    /\ suspendCount = [tid \in Tids |-> 0]
    /\ vm = JvmStart
    /\ rlocks = {}
    /\ mounted = TRUE
    /\ slices = [NoSlices EXCEPT !.array = <<>>]

\* ------------------------------------------------------ EventManager.mu
\* a Lock that excludes nobody
CanLock_NoExclusion(t) == TRUE

\* sync.RWMutex.Lock can proceed
CanLock(t) == mLock.w = NoThread /\ mLock.r = 0
\* sync.RWMutex.RLock can proceed
CanRLock(t) == mLock.w = NoThread

\* the loop "for _, foundEvent := range m.registeredEvents" of the manager
EventFound(name) ==
    \E i \in 1 .. Len(registeredEvents) : objs[registeredEvents[i]].Name = name

\* the event the loop leaves in "event": the last one carrying the name
FoundEvent(name) ==
    LET idx == {i \in 1 .. Len(registeredEvents) :
                   objs[registeredEvents[i]].Name = name}
    IN registeredEvents[CHOOSE i \in idx : \A j \in idx : j <= i]

\* threads inside CreateEvent that may still allocate an object
Creating == {t \in Threads : pc[t] \in {"create_lock", "create_scanned"}}

\* one more call is started
Called == calls < MaxCalls /\ calls' = calls + 1

\* -------------------------------------- the slice m.registeredEvents
\* the capacity append gives a slice that is full (below 256 elements)
GrownCap(cap) == IF cap = 0 THEN 1 ELSE 2 * cap

\* the array after append(slice, x), the slice being the first len elements
AppendArray(array, len, x) ==
    IF len < Len(array)
    THEN [array EXCEPT ![len + 1] = x]
    ELSE [i \in 1 .. GrownCap(Len(array)) |->
             IF i <= len THEN array[i] ELSE IF i = len + 1 THEN x ELSE 0]

\* the array after append(slice[:i], slice[(i + 1):]...): the tail is copied
\* one place down inside the same array
EraseArray(array, len, i) ==
    [j \in 1 .. Len(array) |->
        IF i <= j /\ j < len THEN array[j + 1] ELSE array[j]]

\* what the caller's slice shows once the registry's array has become next
SlicesAfter(next, reallocated) ==
    LET stillShared == slices.shared /\ ~reallocated IN
    [slices EXCEPT !.array = next,
                   !.shared = stillShared,
                   !.view = IF slices.held /\ stillShared
                            THEN SubSeq(next, 1, Len(slices.got))
                            ELSE @]

\* ------------------------------------------------ JdwpEventsMasterDir.Mkdir
\* Mkdir is entered; CreateEvent is about to take m.mu.Lock
MkdirBegin(t, name) ==
    /\ pc[t] = "idle"
    /\ EventFound(name) \/ Len(objs) + Cardinality(Creating) < MaxEvents
    /\ Called
    /\ UNCHANGED nodeVars
    /\ pc' = [pc EXCEPT ![t] = "create_lock"]
    /\ arg' = [arg EXCEPT ![t] = [NoArg EXCEPT !.op = "mkdir", !.name = name]]
    /\ UNCHANGED <<objs, registeredEvents, mLock, toks, last>>

\* CreateEvent: m.mu.Lock and the scan for an event of that name
CreateEventScan(t) ==
    /\ pc[t] = "create_lock"
    /\ CanLock(t)
    /\ mLock' = [mLock EXCEPT !.w = t]
    /\ arg' = [arg EXCEPT ![t].found = EventFound(arg[t].name)]
    /\ pc' = [pc EXCEPT ![t] = "create_scanned"]
    /\ UNCHANGED <<objs, registeredEvents, toks, last, calls, nodeVars>>

\* CreateEvent: the duplicate error, or the append; the deferred Unlock
CreateEventFinish(t) ==
    /\ pc[t] = "create_scanned"
    /\ mLock' = [mLock EXCEPT !.w = NoThread]
    /\ IF arg[t].found
       THEN /\ pc' = [pc EXCEPT ![t] = "idle"]
            /\ arg' = [arg EXCEPT ![t] = NoArg]
            /\ last' = [NoLast EXCEPT !.op = "mkdir", !.name = arg[t].name,
                                      !.errno = EADDRNOTAVAIL]
            /\ UNCHANGED <<objs, registeredEvents, slices>>
       ELSE /\ objs' = Append(objs, NewStubDebuggingEvent(arg[t].name))
            /\ registeredEvents' = Append(registeredEvents, Len(objs) + 1)
            /\ slices' = SlicesAfter(
                             AppendArray(slices.array, Len(registeredEvents),
                                         Len(objs) + 1),
                             Len(registeredEvents) = Len(slices.array))
            /\ pc' = [pc EXCEPT ![t] = "mkdir_get"]
            /\ arg' = [arg EXCEPT ![t].obj = Len(objs) + 1]
            /\ UNCHANGED last
    /\ UNCHANGED <<toks, calls, dirs, suspendCount, vm, rlocks, mounted>>

\* Mkdir: JdwpEventDirFromDebuggingEvent (GetEvent under RLock), the inode
MkdirFinish(t) ==
    /\ pc[t] = "mkdir_get"
    /\ CanRLock(t)
    /\ pc' = [pc EXCEPT ![t] = "idle"]
    /\ arg' = [arg EXCEPT ![t] = NoArg]
    /\ last' = [NoLast EXCEPT !.op = "mkdir", !.name = arg[t].name,
                              !.obj = arg[t].obj,
                              !.errno = IF EventFound(arg[t].name)
                                        THEN F_OK ELSE EADDRNOTAVAIL]
    /\ UNCHANGED <<objs, registeredEvents, mLock, toks, calls, nodeVars>>

\* ------------------------------------------------------- DebuggingEvent
\* e.mu can be taken (Lock or RLock; every method releases it on return)
MuFree(o) == objs[o].mu = NoThread /\ \A t \in Threads : <<t, o>> \notin rlocks

\* e.mu.RLock can proceed: no writer holds e.mu
MuCanRLock(o) == objs[o].mu = NoThread

\* DebuggingEvent.IsRunning
IsRunning(o) == objs[o].ctx # NoCtx

\* the switch of Run that turns a descriptor into a jdwp.EventModifier
ToEventModifier(d) ==
    IF d.IsField
    THEN [tag |-> "FieldOnly", Type |-> d.ClassId, Field |-> d.ObjectId]
    ELSE [tag |-> "LocationOnly", Type |-> d.Kind, Class |-> d.ClassId,
          Method |-> d.ObjectId, Location |-> 0]

\* the modifiers slice Run builds from e.modifierDescriptors
ModifierSnapshot(o) ==
    {ToEventModifier(objs[o].modifierDescriptors[m]) :
        m \in DOMAIN objs[o].modifierDescriptors}

\* PluginRunnerBuilder.AddLocation on an empty builder: os.Stat fails
AddLocationFails(location) == location = PathMissing

\* PluginRunnerBuilder.Build of one path: plugin.Open or Lookup fails
PluginOpenFails(location) == location = PathNoSym

\* the builder loop of Run, then Build: an error if any hook fails
BuildFails(hooks) ==
    \/ \E h \in DOMAIN hooks : AddLocationFails(hooks[h])
    \/ \E h \in DOMAIN hooks : PluginOpenFails(hooks[h])

\* the context Run allocates, and what is known of its goroutine
NewToken(o, spawned) ==
    [ev |-> o,
     cancelled |-> FALSE,
     task |-> IF spawned THEN "spawned" ELSE "none",
     end |-> "",
     actKind |-> objs[o].kind,
     actPolicy |-> objs[o].suspendPolicy,
     modifiers |-> ModifierSnapshot(o),
     plugins |-> IF spawned THEN DOMAIN objs[o].hookDescriptors ELSE {},
     actHooks |-> objs[o].hookDescriptors,
     subKind |-> NoSub,
     subPolicy |-> NoSub,
     delivered |-> 0,
     hookErr |-> FALSE]

\* ctx.Err() of a context
CtxErr(tok) == IF tok.cancelled THEN "context canceled" ELSE "nil"

\* threads that are about to call Run
Running == {t \in Threads : pc[t] = "write_run"}

Return(t, rec) ==
    /\ pc' = [pc EXCEPT ![t] = "idle"]
    /\ arg' = [arg EXCEPT ![t] = NoArg]
    /\ last' = rec

\* the callback of t panics: no callback recovers, the process ends with
\* every thread and goroutine of it
Crash(t, rec) ==
    /\ pc' = [u \in Threads |-> "crashed"]
    /\ arg' = arg
    /\ last' = rec

\* the process has not ended
Alive == \A t \in Threads : pc[t] \notin {"crashed", "exited"}

WriteResult(t, o, data, pre, errno) ==
    [NoLast EXCEPT !.op = "write", !.obj = o, !.data = data, !.pre = pre,
                   !.errno = errno,
                   !.written = IF errno = F_OK THEN Len(data) ELSE 0]

\* ------------------------------------------------ EventControlFile.Write
\* the switch on the trimmed data, up to the IsRunning test of "1" and "0"
WriteBegin(t, o, data) ==
    LET cmd == TrimSpace(data) IN
    /\ pc[t] = "idle"
    /\ Called
    /\ UNCHANGED nodeVars
    /\ UNCHANGED <<objs, registeredEvents, mLock, toks>>
    /\ CASE cmd = W_run ->
              Return(t, WriteResult(t, o, data, IsRunning(o), F_OK))
         [] cmd = W_1 ->
              /\ MuFree(o)
              /\ Len(toks) + Cardinality(Running) < MaxTokens
              /\ IF IsRunning(o)
                 THEN Return(t, WriteResult(t, o, data, TRUE, ENAVAIL))
                 ELSE /\ pc' = [pc EXCEPT ![t] = "write_run"]
                      /\ arg' = [arg EXCEPT ![t] =
                                   [NoArg EXCEPT !.op = "write", !.obj = o,
                                                 !.data = data]]
                      /\ UNCHANGED last
         [] cmd = W_cancel ->
              Return(t, WriteResult(t, o, data, IsRunning(o), F_OK))
         [] cmd = W_0 ->
              /\ MuFree(o)
              /\ IF ~IsRunning(o)
                 THEN Return(t, WriteResult(t, o, data, FALSE, ENAVAIL))
                 ELSE /\ pc' = [pc EXCEPT ![t] = "write_cancel"]
                      /\ arg' = [arg EXCEPT ![t] =
                                   [NoArg EXCEPT !.op = "write", !.obj = o,
                                                 !.data = data, !.pre = TRUE]]
                      /\ UNCHANGED last
         [] OTHER ->
              Return(t, WriteResult(t, o, data, IsRunning(o), EBADMSG))

\* a Run that returns without releasing e.mu
WriteRun_KeepsLock(t) ==
    LET o == arg[t].obj
        k == Len(toks) + 1
        failed == BuildFails(objs[o].hookDescriptors)
    IN
    /\ pc[t] = "write_run"
    /\ MuFree(o)
    /\ objs' = [objs EXCEPT ![o].ctx = k, ![o].cancel = k, ![o].mu = t]
    /\ toks' = Append(toks, NewToken(o, ~failed))
    /\ Return(t, WriteResult(t, o, arg[t].data, arg[t].pre,
                             IF failed THEN EBADE ELSE F_OK))
    /\ UNCHANGED <<registeredEvents, mLock, calls, nodeVars>>

\* DebuggingEvent.Run called by Write, and Write's return
WriteRun(t) ==
    LET o == arg[t].obj
        k == Len(toks) + 1
        failed == BuildFails(objs[o].hookDescriptors)
    IN
    /\ pc[t] = "write_run"
    /\ MuFree(o)
    /\ objs' = [objs EXCEPT ![o].ctx = k, ![o].cancel = k]
    /\ toks' = Append(toks, NewToken(o, ~failed))
    /\ Return(t, WriteResult(t, o, arg[t].data, arg[t].pre,
                             IF failed THEN EBADE ELSE F_OK))
    /\ UNCHANGED <<registeredEvents, mLock, calls, nodeVars>>

\* DebuggingEvent.Cancel called by Write, and Write's return
WriteCancel(t) ==
    LET o == arg[t].obj
        k == objs[o].cancel
    IN
    /\ pc[t] = "write_cancel"
    /\ MuFree(o)
    /\ IF objs[o].ctx = NoCtx
       THEN /\ Return(t, WriteResult(t, o, arg[t].data, arg[t].pre, EBADE))
            /\ UNCHANGED <<objs, toks>>
       ELSE /\ toks' = [toks EXCEPT ![k].cancelled = TRUE]
            /\ objs' = [objs EXCEPT ![o].ctx = NoCtx, ![o].cancel = NoCtx]
            /\ Return(t, WriteResult(t, o, arg[t].data, arg[t].pre,
                         IF CtxErr(toks'[objs[o].ctx]) = "nil"
                         THEN F_OK ELSE EBADE))
    /\ UNCHANGED <<registeredEvents, mLock, calls, nodeVars>>

\* ------------------------------------------------- EventControlFile.Read
ControlText(o) == IF IsRunning(o) THEN "running" ELSE "idle"

\* Read at offset 0
Read(t, o) ==
    /\ pc[t] = "idle"
    /\ MuFree(o)
    /\ Called
    /\ UNCHANGED nodeVars
    /\ Return(t, [NoLast EXCEPT !.op = "read", !.obj = o,
                                !.res = ControlText(o)])
    /\ UNCHANGED <<objs, registeredEvents, mLock, toks>>

\* --------------------------------- EventKindFile, EventSuspendPolicyFile
\* bytes written to events/<name>/kind and events/<name>/suspendPolicy
KindInputs ==
    {Append(n, "\n") : n \in DOMAIN eventKindReprMap}
    \cup {<<" ">> \o EventKindNames[15], <<"x", "y", "z", "\n">>, <<>>,
          <<"v", "m", "d", "e", "a", "t", "h">>, SuspendPolicyNames[3]}
PolicyInputs ==
    {Append(n, "\n") : n \in DOMAIN suspendPolicyReprMap}
    \cup {<<"x", "y", "z", "\n">>, <<"2">>, EventKindNames[17]}

\* a lookup that finds every key
MapOk_Always(map, key) == TRUE

\* "value, ok := map[key]": ok
MapOk(map, key) == key \in DOMAIN map

\* "value, ok := map[key]": value, the zero value for a missing key
MapValue(map, key) == IF key \in DOMAIN map THEN map[key] ELSE 0

FileResult(op, o, data, res, errno) ==
    [NoLast EXCEPT !.op = op, !.obj = o, !.data = data, !.res = res,
                   !.errno = errno,
                   !.written = IF errno = F_OK THEN Len(data) ELSE 0]

\* EventKindFile.Write
KindWrite(t, o, data) ==
    LET writtenData == TrimSpace(data) IN
    /\ pc[t] = "idle"
    /\ Called
    /\ UNCHANGED nodeVars
    /\ IF ~MapOk(eventKindReprMap, writtenData)
       THEN /\ Return(t, FileResult("kind_write", o, data, "", EAFNOSUPPORT))
            /\ UNCHANGED objs
       ELSE /\ MuFree(o)
            /\ objs' = [objs EXCEPT
                          ![o].kind = MapValue(eventKindReprMap, writtenData)]
            /\ Return(t, FileResult("kind_write", o, data, "", F_OK))
    /\ UNCHANGED <<registeredEvents, mLock, toks>>

\* EventKindFile.Read at offset 0
KindRead(t, o) ==
    /\ pc[t] = "idle"
    /\ MuFree(o)
    /\ Called
    /\ UNCHANGED nodeVars
    /\ Return(t, FileResult("kind_read", o, <<>>,
                            EventKindString(objs[o].kind), F_OK))
    /\ UNCHANGED <<objs, registeredEvents, mLock, toks>>

\* EventSuspendPolicyFile.Write
PolicyWrite(t, o, data) ==
    LET writtenData == TrimSpace(data) IN
    /\ pc[t] = "idle"
    /\ Called
    /\ UNCHANGED nodeVars
    /\ IF ~MapOk(suspendPolicyReprMap, writtenData)
       THEN /\ Return(t, FileResult("policy_write", o, data, "",
                                    EAFNOSUPPORT))
            /\ UNCHANGED objs
       ELSE /\ MuFree(o)
            /\ objs' = [objs EXCEPT
                          ![o].suspendPolicy =
                              MapValue(suspendPolicyReprMap, writtenData)]
            /\ Return(t, FileResult("policy_write", o, data, "", F_OK))
    /\ UNCHANGED <<registeredEvents, mLock, toks>>

\* EventSuspendPolicyFile.Read at offset 0
PolicyRead(t, o) ==
    /\ pc[t] = "idle"
    /\ MuFree(o)
    /\ Called
    /\ UNCHANGED nodeVars
    /\ Return(t, FileResult("policy_read", o, <<>>,
                            SuspendPolicyString(objs[o].suspendPolicy), F_OK))
    /\ UNCHANGED <<objs, registeredEvents, mLock, toks>>

\* ------------------------------------------ EventManager.DeregisterEvent
\* an event that is never refused
DeregisterRefuses_Never(o) == FALSE

\* the test "event.ctx != nil" of DeregisterEvent
DeregisterRefuses(o) == objs[o].ctx # NoCtx

\* the index the scan of DeregisterEvent leaves in eventIndex
EventIndex(name) ==
    LET idx == {i \in 1 .. Len(registeredEvents) :
                   objs[registeredEvents[i]].Name = name}
    IN CHOOSE i \in idx : \A j \in idx : j <= i

\* append(m.registeredEvents[:i], m.registeredEvents[(i + 1):]...)
RemoveAt(seq, i) == SubSeq(seq, 1, i - 1) \o SubSeq(seq, i + 1, Len(seq))

DeregisterResult(name, o, err) ==
    [NoLast EXCEPT !.op = "deregister", !.name = name, !.obj = o,
                   !.errno = err]

\* DeregisterEvent: m.mu.Lock, the scan, and the unknown-event error
DeregisterBegin(t, name) ==
    /\ pc[t] = "idle"
    /\ Called
    /\ UNCHANGED nodeVars
    /\ CanLock(t)
    /\ IF EventFound(name)
       THEN /\ mLock' = [mLock EXCEPT !.w = t]
            /\ pc' = [pc EXCEPT ![t] = "dereg_locked"]
            /\ arg' = [arg EXCEPT ![t] =
                         [NoArg EXCEPT !.op = "deregister", !.name = name,
                                       !.obj = FoundEvent(name)]]
            /\ UNCHANGED last
       ELSE /\ Return(t, DeregisterResult(name, 0, "unable to find event"))
            /\ UNCHANGED mLock
    /\ UNCHANGED <<objs, registeredEvents, toks>>

\* DeregisterEvent: event.mu.Lock (never released), the running test, the
\* erasure, and the deferred m.mu.Unlock
DeregisterFinish(t) ==
    LET o == arg[t].obj IN
    /\ pc[t] = "dereg_locked"
    /\ MuFree(o)
    /\ objs' = [objs EXCEPT ![o].mu = t]
    /\ mLock' = [mLock EXCEPT !.w = NoThread]
    /\ IF DeregisterRefuses(o)
       THEN /\ Return(t, DeregisterResult(arg[t].name, o, "event is running"))
            /\ UNCHANGED <<registeredEvents, slices>>
       ELSE /\ registeredEvents' =
                  RemoveAt(registeredEvents, EventIndex(arg[t].name))
            /\ slices' = SlicesAfter(
                             EraseArray(slices.array, Len(registeredEvents),
                                        EventIndex(arg[t].name)),
                             FALSE)
            /\ Return(t, DeregisterResult(arg[t].name, o, F_OK))
    /\ UNCHANGED <<toks, calls, dirs, suspendCount, vm, rlocks, mounted>>

\* EventManager.GetAllEvents, under m.mu.RLock: append of no element returns
\* the slice it was given, so the caller's slice shares the registry's array
GetAllEvents(t) ==
    /\ pc[t] = "idle"
    /\ Called
    /\ CanRLock(t)
    /\ slices' = [slices EXCEPT !.held = TRUE,
                                !.got = registeredEvents,
                                !.view = registeredEvents,
                                !.shared = TRUE]
    /\ Return(t, [NoLast EXCEPT !.op = "list", !.res = registeredEvents])
    /\ UNCHANGED <<objs, registeredEvents, mLock, toks, dirs, suspendCount,
                   vm, rlocks, mounted>>

\* ------------------------------------------------ JdwpEventsMasterDir
\* Readdir: the names of GetAllEvents, in registry order
EventsReaddir ==
    [i \in 1 .. Len(registeredEvents) |-> objs[registeredEvents[i]].Name]

\* Lookup: GetEvent, ENOENT for an unknown name
EventsLookup(name) == IF EventFound(name) THEN F_OK ELSE ENOENT

\* rmdir events/<name>: JdwpEventsMasterDir has no Rmdir method, so nothing
\* of the manager runs; the result code is the one the FUSE bridge gives a
\* node without the method
EventsRmdir(t, name, errno) ==
    /\ pc[t] = "idle"
    /\ Called
    /\ UNCHANGED nodeVars
    /\ errno \in {F_OK, ENOTSUP}
    /\ Return(t, [NoLast EXCEPT
                    !.op = "rmdir", !.name = name, !.errno = errno,
                    !.obj = IF EventFound(name) THEN FoundEvent(name) ELSE 0,
                    !.pre = EventFound(name) /\ IsRunning(FoundEvent(name)),
                    !.res = IF EventFound(name) THEN "present" ELSE "absent"])
    /\ UNCHANGED <<objs, registeredEvents, mLock, toks>>

\* ---------------------------------------------------------- JdwpEventDir
\* JdwpEventDir.registered, set by JdwpEventDirFromDebuggingEvent
EventDirRegistered == TRUE

\* JdwpEventDir.Unlink
EventDirUnlink(t, o, name) ==
    IF name = "registered" /\ ~EventDirRegistered
    THEN DeregisterBegin(t, name)
    ELSE /\ pc[t] = "idle"
         /\ Called
         /\ UNCHANGED nodeVars
         /\ Return(t, [NoLast EXCEPT !.op = "unlink", !.obj = o,
                                     !.name = name, !.errno = EROFS])
         /\ UNCHANGED <<objs, registeredEvents, mLock, toks>>

\* JdwpEventDir.Readdir
EventDirReaddir == <<"control", "kind", "suspendPolicy", "location", "hooks">>

\* JdwpEventDir.Lookup: "location" and "hooks" build a new directory node
\* with no links; the three files hold nothing but the event
NewDirectory(o, kind) == [event |-> o, kind |-> kind, links |-> <<>>]

EventDirLookup(t, o, name) ==
    /\ pc[t] = "idle"
    /\ Called
    /\ IF name \in {"hooks", "location"}
       THEN /\ Len(dirs) < MaxDirs
            /\ dirs' = Append(dirs, NewDirectory(o, name))
            /\ Return(t, [NoLast EXCEPT !.op = "lookup", !.obj = o,
                                        !.name = name, !.errno = F_OK,
                                        !.dir = Len(dirs) + 1])
       ELSE /\ UNCHANGED dirs
            /\ Return(t, [NoLast EXCEPT
                            !.op = "lookup", !.obj = o, !.name = name,
                            !.errno = IF name \in {"control", "kind",
                                                   "suspendPolicy"}
                                      THEN F_OK ELSE ENOENT])
    /\ UNCHANGED <<objs, registeredEvents, mLock, toks, suspendCount, envVars>>

\* ------------------------------------------------- strings and strconv
\* strings.HasPrefix
HasPrefix(s, prefix) ==
    Len(s) >= Len(prefix) /\ SubSeq(s, 1, Len(prefix)) = prefix

\* strings.TrimPrefix
TrimPrefix(s, prefix) ==
    IF HasPrefix(s, prefix) THEN SubSeq(s, Len(prefix) + 1, Len(s)) ELSE s

\* strings.Split(s, "/")
RECURSIVE Split(_)
Split(s) ==
    IF \A i \in 1 .. Len(s) : s[i] # "/"
    THEN <<s>>
    ELSE LET i == CHOOSE i \in 1 .. Len(s) :
                      s[i] = "/" /\ \A j \in 1 .. (i - 1) : s[j] # "/"
         IN <<SubSeq(s, 1, i - 1)>> \o Split(SubSeq(s, i + 1, Len(s)))

DigitVal == ("0" :> 0) @@ ("1" :> 1) @@ ("2" :> 2) @@ ("3" :> 3) @@ ("4" :> 4)
            @@ ("5" :> 5) @@ ("6" :> 6) @@ ("7" :> 7) @@ ("8" :> 8)
            @@ ("9" :> 9)

\* strconv.ParseUint(s, 10, 64) returns no error (the texts of the model
\* stay far below 2^64)
ParseOk(s) == s # <<>> /\ \A i \in 1 .. Len(s) : s[i] \in DOMAIN DigitVal

\* the value strconv.ParseUint(s, 10, 64) returns
RECURSIVE ParseUint(_)
ParseUint(s) ==
    IF s = <<>> THEN 0
    ELSE ParseUint(SubSeq(s, 1, Len(s) - 1)) * 10 + DigitVal[s[Len(s)]]

\* ----------------------------------------- EventLocationDirectory.Symlink
\* the loop "for pathComponents[0] == "/" || pathComponents[0] == """ runs
\* off the end of the slice
LeadingPanics(comps) == \A i \in 1 .. Len(comps) : comps[i] \in {<<>>, Sl}

\* what that loop leaves in pathComponents
RECURSIVE DropLeading(_)
DropLeading(comps) ==
    IF Head(comps) \in {<<>>, Sl} THEN DropLeading(Tail(comps)) ELSE comps

\* a "for _, x := range xs" loop that stores &x: some element matched
Matches(ids, id) == \E i \in 1 .. Len(ids) : ids[i] = id

\* what the stored &x points at once the loop has ended: the single range
\* variable of the loop, holding the last element (go 1.18)
LoopVar(xs) == xs[Len(xs)]

\* jdwp.ClassInfo.ClassID
ClassID(class) == class.TypeID
\* the ids a listing of classes (of members) is scanned for
ClassIDs(classes) == [i \in 1 .. Len(classes) |-> ClassID(classes[i])]
MemberIDs(members) == [i \in 1 .. Len(members) |-> members[i].ID]

Resolved(errno, descriptor) == [errno |-> errno, descriptor |-> descriptor]
NoDescriptor == [Name |-> "", Kind |-> 0, IsField |-> FALSE,
                 ClassId |-> 0, ObjectId |-> 0]
Panics == "panic"

\* Symlink up to the call of SetModifier: the errno it returns early, or
\* the modifier it binds.  The targets are absolute and clean, so that
\* filepath.Abs returns them; evalOk tells whether filepath.EvalSymlinks
\* finds the path, jvmOk whether the connection answers.
ResolveTarget(target, name, evalOk, jvmOk) ==
    LET absPath == target
        comps == DropLeading(Split(TrimPrefix(absPath, absoluteMountpoint)))
        classId == ParseUint(comps[2])
        memberId == ParseUint(comps[4])
        foundClass == LoopVar(JvmClasses)
    IN
    IF ~evalOk THEN Resolved(ENOENT, NoDescriptor)
    ELSE IF ~HasPrefix(absPath, absoluteMountpoint)
    THEN Resolved(EBADE, NoDescriptor)
    ELSE IF LeadingPanics(Split(TrimPrefix(absPath, absoluteMountpoint)))
    THEN Resolved(Panics, NoDescriptor)
    ELSE IF ~( /\ Len(comps) = 4
               /\ comps[1] = S_classes
               /\ comps[3] \in {S_fields, S_methods} )
    THEN Resolved(EBADE, NoDescriptor)
    ELSE IF ~ParseOk(comps[2]) THEN Resolved(EBADE, NoDescriptor)
    ELSE IF ~jvmOk THEN Resolved(EADDRNOTAVAIL, NoDescriptor)
    ELSE IF ~Matches(ClassIDs(JvmClasses), classId)
    THEN Resolved(ENOENT, NoDescriptor)
    ELSE IF ~ParseOk(comps[4]) THEN Resolved(EBADE, NoDescriptor)
    ELSE IF comps[3] = S_fields
    THEN IF ~Matches(MemberIDs(JvmFields(classId)), memberId)
         THEN Resolved(ENOENT, NoDescriptor)
         ELSE Resolved(F_OK,
                  [Name |-> name, Kind |-> foundClass.Kind, IsField |-> TRUE,
                   ClassId |-> foundClass.TypeID,
                   ObjectId |-> LoopVar(JvmFields(classId)).ID])
    ELSE IF ~Matches(MemberIDs(JvmMethods(classId)), memberId)
         THEN Resolved(ENOENT, NoDescriptor)
         ELSE Resolved(F_OK,
                  [Name |-> name, Kind |-> foundClass.Kind, IsField |-> FALSE,
                   ClassId |-> ClassID(foundClass),
                   ObjectId |-> LoopVar(JvmMethods(classId)).ID])

\* Symlink: the target is resolved and d.event.SetModifier binds the name
LocSymlinkBegin(t, d, target, name, evalOk, jvmOk) ==
    LET o == dirs[d].event
        r == ResolveTarget(target, name, evalOk, jvmOk)
    IN
    /\ pc[t] = "idle"
    /\ dirs[d].kind = "location"
    /\ Len(dirs[d].links) < MaxLinks
    /\ Called
    /\ IF r.errno = Panics
       THEN /\ Crash(t, [NoLast EXCEPT !.op = "symlink", !.obj = o,
                                       !.dir = d, !.name = name,
                                       !.data = target, !.errno = r.errno,
                                       !.pre = evalOk, !.jvmOk = jvmOk])
            /\ UNCHANGED objs
       ELSE IF r.errno # F_OK
       THEN /\ Return(t, [NoLast EXCEPT !.op = "symlink", !.obj = o,
                                        !.dir = d, !.name = name,
                                        !.data = target, !.errno = r.errno,
                                        !.pre = evalOk, !.jvmOk = jvmOk])
            /\ UNCHANGED objs
       ELSE /\ MuFree(o)
            /\ objs' = [objs EXCEPT ![o].modifierDescriptors =
                           (name :> r.descriptor) @@ @]
            /\ pc' = [pc EXCEPT ![t] = "symlink_link"]
            /\ arg' = [arg EXCEPT ![t] =
                         [NoArg EXCEPT !.op = "symlink", !.obj = o,
                                       !.dir = d, !.name = name,
                                       !.data = target]]
            /\ UNCHANGED last
    /\ UNCHANGED <<registeredEvents, mLock, toks, suspendCount, envVars, dirs>>

\* Symlink: under d.mu the link is appended to d.links
LocSymlinkFinish(t) ==
    LET d == arg[t].dir IN
    /\ pc[t] = "symlink_link"
    /\ dirs' = [dirs EXCEPT ![d].links =
                   Append(@, [name |-> arg[t].name, target |-> arg[t].data])]
    /\ Return(t, [NoLast EXCEPT !.op = "symlink", !.obj = arg[t].obj,
                                !.dir = d, !.name = arg[t].name,
                                !.data = arg[t].data, !.errno = F_OK])
    /\ UNCHANGED <<objs, registeredEvents, mLock, toks, suspendCount, envVars, calls>>

\* ------------------------------------------ EventLocationDirectory.Unlink
\* the index the scan leaves in foundLinkIndex
LinkIndex(links, name) ==
    LET idx == {i \in 1 .. Len(links) : links[i].name = name}
    IN CHOOSE i \in idx : \A j \in idx : j <= i

\* Unlink, under d.mu: the link is cut out of d.links
LocUnlink(t, d, name) ==
    LET links == dirs[d].links IN
    /\ pc[t] = "idle"
    /\ dirs[d].kind = "location"
    /\ Called
    /\ IF \E i \in 1 .. Len(links) : links[i].name = name
       THEN /\ dirs' = [dirs EXCEPT ![d].links =
                           RemoveAt(links, LinkIndex(links, name))]
            /\ Return(t, [NoLast EXCEPT !.op = "unlink",
                            !.obj = dirs[d].event, !.dir = d, !.name = name,
                            !.errno = F_OK])
       ELSE /\ UNCHANGED dirs
            /\ Return(t, [NoLast EXCEPT !.op = "unlink",
                            !.obj = dirs[d].event, !.dir = d, !.name = name,
                            !.errno = ENOENT])
    /\ UNCHANGED <<objs, registeredEvents, mLock, toks, suspendCount, envVars>>

\* -------------------------------------------------- EventHooksDirectory
\* Symlink, under d.mu: the link is appended to d.links
HooksSymlink(t, d, target, name) ==
    /\ pc[t] = "idle"
    /\ dirs[d].kind = "hooks"
    /\ Len(dirs[d].links) < MaxLinks
    /\ Called
    /\ dirs' = [dirs EXCEPT ![d].links =
                   Append(@, [name |-> name, target |-> target])]
    /\ Return(t, [NoLast EXCEPT !.op = "symlink", !.obj = dirs[d].event,
                                !.dir = d, !.name = name, !.data = target,
                                !.errno = F_OK])
    /\ UNCHANGED <<objs, registeredEvents, mLock, toks, suspendCount, envVars>>

\* unlink in hooks/: EventHooksDirectory has no Unlink method, so no link
\* is removed; the result code is the one the FUSE bridge gives
HooksUnlink(t, d, name, errno) ==
    /\ pc[t] = "idle"
    /\ dirs[d].kind = "hooks"
    /\ Called
    /\ errno \in {F_OK, ENOTSUP}
    /\ Return(t, [NoLast EXCEPT !.op = "unlink", !.obj = dirs[d].event,
                                !.dir = d, !.name = name, !.errno = errno])
    /\ UNCHANGED <<objs, registeredEvents, mLock, toks, suspendCount, envVars, dirs>>

\* Readdir of a location/ or hooks/ node: the names of d.links, in order
DirReaddir(d) == [i \in 1 .. Len(dirs[d].links) |-> dirs[d].links[i].name]

\* ------------------------------------------------------ the JVM's threads
\* bytes written to threads/<tid>/control and threads/control
D_running == <<"r", "u", "n", "n", "i", "n", "g", "\n">>
D_suspend == <<"s", "u", "s", "p", "e", "n", "d", "\n">>
ThreadInputs == {D_running, D_1, D_suspend, D_0, D_bad}
W_running == <<"r", "u", "n", "n", "i", "n", "g">>
W_suspend == <<"s", "u", "s", "p", "e", "n", "d">>

\* the suspend status GetThreadStatus reports: 1 for a suspended thread
SuspendStatus(tid) == IF suspendCount[tid] > 0 THEN 1 ELSE 0

\* jdwp Suspend and Resume of one thread, SuspendAll and ResumeAll
Suspend(count, tid) == [count EXCEPT ![tid] = @ + 1]
Resume(count, tid) == [count EXCEPT ![tid] = IF @ > 0 THEN @ - 1 ELSE 0]
SuspendAllThreads(count) == [tid \in Tids |-> count[tid] + 1]
ResumeAllThreads(count) == [tid \in Tids |-> IF count[tid] > 0
                                     THEN count[tid] - 1 ELSE 0]

\* the texts the switch of Write has a case for
Accepted == {W_running, W_1, W_suspend, W_0}

\* what the switch leaves in writtenState: only the cases "1" and "0" have
\* a body, the others leave the zero value
WrittenState(cmd) == IF cmd = W_1 THEN 1 ELSE 0

ThreadResult(op, tid, data, before, call, errno) ==
    [NoLast EXCEPT !.op = op, !.obj = tid, !.data = data, !.res = call,
                   !.count = before, !.errno = errno,
                   !.written = IF errno = F_OK THEN Len(data) ELSE 0]

\* ThreadControlFile.Write, under c.mu; jvm tells which call of the
\* connection fails
ThreadWrite(t, tid, data, jvm) ==
    LET cmd == TrimSpace(data)
        suspendStatus == SuspendStatus(tid)
        writtenState == WrittenState(cmd)
        call == IF suspendStatus = writtenState THEN "none"
                ELSE IF writtenState = 0 THEN "Suspend" ELSE "Resume"
        Result(c, errno) ==
            ThreadResult("thread_write", tid, data, suspendCount[tid], c,
                         errno)
    IN
    /\ pc[t] = "idle"
    /\ Called
    /\ jvm \in {"ok", "status fails", "call fails"}
    /\ UNCHANGED <<objs, registeredEvents, mLock, toks, dirs, envVars>>
    /\ IF jvm = "status fails"
       THEN Return(t, Result("none", EACCES)) /\ UNCHANGED suspendCount
       ELSE IF cmd \notin Accepted
       THEN Return(t, Result("none", EFAULT)) /\ UNCHANGED suspendCount
       ELSE IF call # "none" /\ jvm = "call fails"
       THEN Return(t, Result(call, EFAULT)) /\ UNCHANGED suspendCount
       ELSE /\ call = "Suspend" => suspendCount[tid] < MaxSuspend
            /\ suspendCount' =
                 CASE call = "Suspend" -> Suspend(suspendCount, tid)
                   [] call = "Resume" -> Resume(suspendCount, tid)
                   [] OTHER -> suspendCount
            /\ Return(t, Result(call, F_OK))

\* a switch that knows two values only
ControlFileContents_TwoValued(suspendStatus) ==
    IF suspendStatus = 0 THEN "running" ELSE "suspended"

\* the switch of Read on int(suspendStatus)
ControlFileContents(suspendStatus) ==
    CASE suspendStatus = 0 -> "running"
      [] suspendStatus = 1 -> "suspended"
      [] OTHER -> "not implemented"

\* the text Read makes of the suspend status
ThreadControlText(tid) == ControlFileContents(SuspendStatus(tid))

\* the value GetThreadStatus hands to Read: the suspended bit, and the flag
\* bits above it that the JVM sends
ReportedStatus(tid, flags) == SuspendStatus(tid) + 2 * flags

\* ThreadControlFile.Read at offset 0, under c.mu
ThreadRead(t, tid, jvm, flags) ==
    /\ pc[t] = "idle"
    /\ Called
    /\ jvm \in {"ok", "status fails"}
    /\ flags \in {0, 1}
    /\ Return(t, IF jvm = "ok"
                 THEN [ThreadResult("thread_read", tid, <<>>,
                          suspendCount[tid],
                          ControlFileContents(ReportedStatus(tid, flags)),
                          F_OK)
                       EXCEPT !.status = ReportedStatus(tid, flags)]
                 ELSE ThreadResult("thread_read", tid, <<>>,
                          suspendCount[tid], "", EACCES))
    /\ UNCHANGED <<objs, registeredEvents, mLock, toks, nodeVars>>

\* ThreadMasterControlFile.Write, under c.mu
ThreadsWrite(t, data, jvm) ==
    LET cmd == TrimSpace(data)
        call == IF WrittenState(cmd) = 0 THEN "SuspendAll" ELSE "ResumeAll"
        Result(c, errno) == ThreadResult("threads_write", 0, data, 0, c, errno)
    IN
    /\ pc[t] = "idle"
    /\ Called
    /\ jvm \in {"ok", "call fails"}
    /\ UNCHANGED <<objs, registeredEvents, mLock, toks, dirs, envVars>>
    /\ IF cmd \notin Accepted
       THEN Return(t, Result("none", EFAULT)) /\ UNCHANGED suspendCount
       ELSE IF jvm = "call fails"
       THEN Return(t, Result(call, EFAULT)) /\ UNCHANGED suspendCount
       ELSE /\ call = "SuspendAll"
                 => \A tid \in Tids : suspendCount[tid] < MaxSuspend
            /\ suspendCount' = IF call = "SuspendAll"
                               THEN SuspendAllThreads(suspendCount)
                               ELSE ResumeAllThreads(suspendCount)
            /\ Return(t, Result(call, F_OK))

\* ThreadMasterControlFile.Read at offset 0: empty content
ThreadsRead(t) ==
    /\ pc[t] = "idle"
    /\ Called
    /\ Return(t, ThreadResult("threads_read", 0, <<>>, 0, "", F_OK))
    /\ UNCHANGED <<objs, registeredEvents, mLock, toks, nodeVars>>

\* ------------------------------ threads/, threads_by_name/ and classes/
S_threads == <<"t", "h", "r", "e", "a", "d", "s">>
S_control == <<"c", "o", "n", "t", "r", "o", "l">>
Digits == <<"0", "1", "2", "3", "4", "5", "6", "7", "8", "9">>

\* strconv.FormatUint(n, 10)
RECURSIVE FormatUint(_)
FormatUint(n) ==
    IF n < 10 THEN <<Digits[n + 1]>>
    ELSE FormatUint(n \div 10) \o <<Digits[(n % 10) + 1]>>

\* filepath.Join(d.AbsoluteMountpoint, "threads", FormatUint(id))
ThreadPath(id) == absoluteMountpoint \o Sl \o S_threads \o Sl \o FormatUint(id)

\* the names a lookup in threads/ or classes/ is asked for
LookupNames == {FormatUint(n) : n \in JvmThreadIds} \cup {S_control, <<"x">>}

\* a thread starts, ends; a class is unloaded
JvmThreadStart(id, name) ==
    /\ Len(vm.threads) < MaxJvmThreads
    /\ \A i \in 1 .. Len(vm.threads) : vm.threads[i].id # id
    /\ vm' = [vm EXCEPT !.threads = Append(@, [id |-> id, name |-> name])]
    /\ UNCHANGED <<objs, registeredEvents, mLock, toks, pc, arg, last, calls,
                   dirs, suspendCount, sysVars>>

JvmThreadEnd(i) ==
    /\ i \in 1 .. Len(vm.threads)
    /\ vm' = [vm EXCEPT !.threads = RemoveAt(@, i)]
    /\ UNCHANGED <<objs, registeredEvents, mLock, toks, pc, arg, last, calls,
                   dirs, suspendCount, sysVars>>

JvmClassUnload(i) ==
    /\ i \in 1 .. Len(vm.classes)
    /\ vm' = [vm EXCEPT !.classes = RemoveAt(@, i)]
    /\ UNCHANGED <<objs, registeredEvents, mLock, toks, pc, arg, last, calls,
                   dirs, suspendCount, sysVars>>

\* the result of a Readdir or a Lookup of these directories; answered
\* tells that the connection answered every request of the call
ListingResult(op, data, name, answered, res, errno) ==
    [NoLast EXCEPT !.op = op, !.data = data, !.name = name,
                   !.pre = answered, !.res = res, !.errno = errno]

\* NewJdwpThreadDir and NewJdwpClassInfoDir: the node of an id, and the
\* error, which is always nil
NewJdwpThreadDir(id) == [node |-> [kind |-> "thread", id |-> id], err |-> FALSE]
NewJdwpClassInfoDir(typeId) ==
    [node |-> [kind |-> "class", id |-> typeId], err |-> FALSE]

\* the entries of JdwpThreadMasterDir.Readdir: GetDirEntry of every thread
\* of GetAllThreads, then the master control file
ThreadEntries(threads) ==
    [i \in 1 .. Len(threads) |-> FormatUint(NewJdwpThreadDir(threads[i].id).node.id)]
        \o <<S_control>>

\* JdwpThreadMasterDir.Readdir
ThreadsReaddir(t, jvmOk) ==
    /\ pc[t] = "idle"
    /\ Called
    /\ Return(t, IF ~jvmOk
                 THEN ListingResult("threads_readdir", <<>>, "", FALSE, <<>>,
                                    EADDRNOTAVAIL)
                 ELSE ListingResult("threads_readdir", <<>>, "", TRUE,
                                    ThreadEntries(vm.threads), F_OK))
    /\ UNCHANGED <<objs, registeredEvents, mLock, toks, nodeVars>>

\* JdwpThreadMasterDir.Lookup
ThreadsLookup(t, name) ==
    /\ pc[t] = "idle"
    /\ Called
    /\ Return(t,
          IF name = S_control
          THEN ListingResult("threads_lookup", name, "", TRUE,
                             [kind |-> "control", id |-> 0], F_OK)
          ELSE IF ~ParseOk(name)
          THEN ListingResult("threads_lookup", name, "", TRUE, <<>>, ENOENT)
          ELSE IF NewJdwpThreadDir(ParseUint(name)).err
          THEN ListingResult("threads_lookup", name, "", TRUE, <<>>, ENOENT)
          ELSE ListingResult("threads_lookup", name, "", TRUE,
                             NewJdwpThreadDir(ParseUint(name)).node, F_OK))
    /\ UNCHANGED <<objs, registeredEvents, mLock, toks, nodeVars>>

\* the entries of JdwpClassMasterDir.Readdir
ClassEntries(classes) ==
    [i \in 1 .. Len(classes) |->
        FormatUint(NewJdwpClassInfoDir(classes[i].TypeID).node.id)]

\* JdwpClassMasterDir.Readdir
ClassesReaddir(t, jvmOk) ==
    /\ pc[t] = "idle"
    /\ Called
    /\ Return(t, IF ~jvmOk
                 THEN ListingResult("classes_readdir", <<>>, "", FALSE, <<>>,
                                    EFAULT)
                 ELSE ListingResult("classes_readdir", <<>>, "", TRUE,
                                    ClassEntries(vm.classes), F_OK))
    /\ UNCHANGED <<objs, registeredEvents, mLock, toks, nodeVars>>

\* JdwpClassMasterDir.Lookup
ClassesLookup(t, name) ==
    /\ pc[t] = "idle"
    /\ Called
    /\ Return(t,
          IF ~ParseOk(name)
          THEN ListingResult("classes_lookup", name, "", TRUE, <<>>, ENOENT)
          ELSE IF NewJdwpClassInfoDir(ParseUint(name)).err
          THEN ListingResult("classes_lookup", name, "", TRUE, <<>>, ENOENT)
          ELSE ListingResult("classes_lookup", name, "", TRUE,
                             NewJdwpClassInfoDir(ParseUint(name)).node, F_OK))
    /\ UNCHANGED <<objs, registeredEvents, mLock, toks, nodeVars>>

\* the entries of JdwpThreadNamedDir.Readdir: GetThreadName of every thread
NamedEntries(threads) == [i \in 1 .. Len(threads) |-> threads[i].name]

\* JdwpThreadNamedDir.Readdir; namesOk tells whether GetThreadName answers
NamedReaddir(t, jvmOk, namesOk) ==
    /\ pc[t] = "idle"
    /\ Called
    /\ Return(t,
          IF ~jvmOk
          THEN ListingResult("named_readdir", <<>>, "", FALSE, <<>>,
                             EADDRNOTAVAIL)
          ELSE IF vm.threads # <<>> /\ ~namesOk
          THEN ListingResult("named_readdir", <<>>, "", FALSE, <<>>, EBADF)
          ELSE ListingResult("named_readdir", <<>>, "", TRUE,
                             NamedEntries(vm.threads), F_OK))
    /\ UNCHANGED <<objs, registeredEvents, mLock, toks, nodeVars>>

\* the loop of JdwpThreadNamedDir.Lookup: foundThreadId is overwritten by
\* every thread carrying the name, and is 0 when none does
RECURSIVE FoundThreadId(_, _)
FoundThreadId(threads, name) ==
    IF threads = <<>> THEN 0
    ELSE IF threads[Len(threads)].name = name THEN threads[Len(threads)].id
    ELSE FoundThreadId(SubSeq(threads, 1, Len(threads) - 1), name)

\* JdwpThreadNamedDir.Lookup: a symlink to the thread's directory
NamedLookup(t, name, jvmOk, namesOk) ==
    /\ pc[t] = "idle"
    /\ Called
    /\ Return(t,
          IF ~jvmOk \/ (vm.threads # <<>> /\ ~namesOk)
          THEN ListingResult("named_lookup", <<>>, name, FALSE, <<>>, EBADF)
          ELSE IF FoundThreadId(vm.threads, name) = 0
          THEN ListingResult("named_lookup", <<>>, name, TRUE, <<>>, EBADF)
          ELSE ListingResult("named_lookup", <<>>, name, TRUE,
                             ThreadPath(FoundThreadId(vm.threads, name)),
                             F_OK))
    /\ UNCHANGED <<objs, registeredEvents, mLock, toks, nodeVars>>

\* --------------------------------------- configuration of a DebuggingEvent
\* the result of a call, and whether the map had the name before it
ConfigResult(op, o, name, value, ok) ==
    [NoLast EXCEPT !.op = op, !.obj = o, !.name = name, !.res = value,
                   !.pre = IF op \in {"SetModifier", "DeleteModifier"}
                           THEN name \in DOMAIN objs[o].modifierDescriptors
                           ELSE name \in DOMAIN objs[o].hookDescriptors,
                   !.errno = IF ok THEN F_OK ELSE "false"]

Config(o, op, name, value, ok) ==
    /\ MuFree(o)
    /\ Called
    /\ UNCHANGED nodeVars
    /\ last' = ConfigResult(op, o, name, value, ok)
    /\ UNCHANGED <<registeredEvents, mLock, toks, pc, arg>>

\* DebuggingEvent.SetKind
SetKind(o, kind) ==
    /\ Config(o, "SetKind", "", kind, TRUE)
    /\ objs' = [objs EXCEPT ![o].kind = kind]

\* DebuggingEvent.SetSuspendPolicy
SetSuspendPolicy(o, policy) ==
    /\ Config(o, "SetSuspendPolicy", "", policy, TRUE)
    /\ objs' = [objs EXCEPT ![o].suspendPolicy = policy]

\* a SetHookDescriptor that replaces the reference of a name it has
SetHookDescriptor_Overwrites(o, name, target) ==
    /\ Config(o, "SetHookDescriptor", name, target, TRUE)
    /\ objs' = [objs EXCEPT ![o].hookDescriptors =
                   (name :> target) @@ objs[o].hookDescriptors]

\* DebuggingEvent.SetHookDescriptor
SetHookDescriptor(o, name, target) ==
    IF name \in DOMAIN objs[o].hookDescriptors
    THEN /\ Config(o, "SetHookDescriptor", name, target, FALSE)
         /\ UNCHANGED objs
    ELSE /\ Config(o, "SetHookDescriptor", name, target, TRUE)
         /\ objs' = [objs EXCEPT ![o].hookDescriptors =
                        (name :> target) @@ objs[o].hookDescriptors]

\* delete(m, name) of a Go map
Delete(m, name) == [k \in DOMAIN m \ {name} |-> m[k]]

\* DebuggingEvent.RemoveHookDescriptor
RemoveHookDescriptor(o, name) ==
    IF name \notin DOMAIN objs[o].hookDescriptors
    THEN /\ Config(o, "RemoveHookDescriptor", name, "", FALSE)
         /\ UNCHANGED objs
    ELSE /\ Config(o, "RemoveHookDescriptor", name, "", TRUE)
         /\ objs' = [objs EXCEPT ![o].hookDescriptors = Delete(@, name)]

\* DebuggingEvent.SetModifier
SetModifier(o, name, modifierDescriptor) ==
    /\ Config(o, "SetModifier", name, modifierDescriptor, TRUE)
    /\ objs' = [objs EXCEPT ![o].modifierDescriptors =
                   (name :> modifierDescriptor)
                       @@ objs[o].modifierDescriptors]

\* DebuggingEvent.DeleteModifier
DeleteModifier(o, name) ==
    IF name \notin DOMAIN objs[o].modifierDescriptors
    THEN /\ Config(o, "DeleteModifier", name, "", FALSE)
         /\ UNCHANGED objs
    ELSE /\ Config(o, "DeleteModifier", name, "", TRUE)
         /\ objs' = [objs EXCEPT ![o].modifierDescriptors = Delete(@, name)]

\* ------------------------- DeleteModifier and GetModifiers, step by step
\* DeleteModifier: e.mu.RLock
DeleteModifierRLock(t, o, name) ==
    /\ pc[t] = "idle"
    /\ Called
    /\ MuCanRLock(o)
    /\ rlocks' = rlocks \cup {<<t, o>>}
    /\ pc' = [pc EXCEPT ![t] = "delete_modifier"]
    /\ arg' = [arg EXCEPT ![t] = [NoArg EXCEPT !.op = "DeleteModifier",
                                               !.obj = o, !.name = name]]
    /\ UNCHANGED <<objs, registeredEvents, mLock, toks, last, dirs,
                   suspendCount, vm, slices, mounted>>

\* another thread is inside a call that reads or writes the modifier map of o
MapInUse(t, o) ==
    \E u \in Threads \ {t} :
        /\ pc[u] \in {"delete_modifier", "get_modifiers"}
        /\ arg[u].obj = o

\* DeleteModifier: the test, delete(e.modifierDescriptors, name) and the
\* deferred RUnlock.  A delete while another thread uses the map is a data
\* race: the runtime may detect it and end the process
DeleteModifierDelete(t, detected) ==
    LET o == arg[t].obj
        name == arg[t].name
        result(ok) == ConfigResult("DeleteModifier", o, name, "", ok)
    IN
    /\ pc[t] = "delete_modifier"
    /\ rlocks' = rlocks \ {<<t, o>>}
    /\ IF name \notin DOMAIN objs[o].modifierDescriptors
       THEN /\ Return(t, result(FALSE))
            /\ UNCHANGED objs
       ELSE /\ objs' = [objs EXCEPT ![o].modifierDescriptors = Delete(@, name)]
            /\ IF MapInUse(t, o) /\ detected
               THEN Crash(t, [result(FALSE) EXCEPT !.errno = Panics])
               ELSE Return(t, result(TRUE))
    /\ UNCHANGED <<registeredEvents, mLock, toks, calls, dirs, suspendCount,
                   vm, slices, mounted>>

\* GetModifiers: e.mu.RLock
GetModifiersRLock(t, o) ==
    /\ pc[t] = "idle"
    /\ Called
    /\ MuCanRLock(o)
    /\ rlocks' = rlocks \cup {<<t, o>>}
    /\ pc' = [pc EXCEPT ![t] = "get_modifiers"]
    /\ arg' = [arg EXCEPT ![t] = [NoArg EXCEPT !.op = "GetModifiers",
                                               !.obj = o]]
    /\ UNCHANGED <<objs, registeredEvents, mLock, toks, last, dirs,
                   suspendCount, vm, slices, mounted>>

\* GetModifiers: the copy of the map and the deferred RUnlock
GetModifiersCopy(t) ==
    LET o == arg[t].obj IN
    /\ pc[t] = "get_modifiers"
    /\ rlocks' = rlocks \ {<<t, o>>}
    /\ Return(t, [NoLast EXCEPT !.op = "GetModifiers", !.obj = o,
                                !.res = objs[o].modifierDescriptors])
    /\ UNCHANGED <<objs, registeredEvents, mLock, toks, calls, dirs,
                   suspendCount, vm, slices, mounted>>

\* --------------------------------------------------------------- main
\* a goroutine of event o that has not returned
LiveTask(k) == toks[k].task \in {"spawned", "watching"}

\* SIGINT or SIGTERM arrives: the goroutine of main calls server.Unmount,
\* server.Wait returns and main returns, which ends every goroutine.  The
\* kernel refuses the unmount (busy) while a callback is in flight
Unmount ==
    /\ mounted
    /\ \A t \in Threads : pc[t] = "idle"
    /\ mounted' = FALSE
    /\ pc' = [t \in Threads |-> "exited"]
    /\ last' = [NoLast EXCEPT !.op = "unmount"]
    /\ UNCHANGED <<objs, registeredEvents, mLock, toks, arg, calls, dirs,
                   suspendCount, vm, rlocks, slices>>

\* ----------------------------------- the goroutine spawned by Run
\* the closure "hook" of Run: the value it returns to WatchEvents
HookReturns(failing) == failing = {}

\* jdwp.Connection.WatchEvents leaves its loop when the handler returns false
WatchStops(handlerResult) == ~handlerResult

\* the goroutine evaluates e.kind and e.suspendPolicy and enters WatchEvents
TaskWatchEvents(k) ==
    /\ Alive
    /\ toks[k].task = "spawned"
    /\ toks' = [toks EXCEPT ![k].task = "watching",
                            ![k].subKind = objs[toks[k].ev].kind,
                            ![k].subPolicy = objs[toks[k].ev].suspendPolicy]
    /\ UNCHANGED <<objs, registeredEvents, mLock, pc, arg, last, calls, nodeVars>>

\* a JVM event is delivered: the closure runs PluginRunner.Entrypoint, and
\* every hook of "failing" returns an error
TaskDeliver(k, failing) ==
    /\ Alive
    /\ toks[k].task = "watching"
    /\ toks[k].delivered < MaxDeliver
    /\ failing \subseteq toks[k].plugins
    /\ toks' = [toks EXCEPT
                  ![k].delivered = @ + 1,
                  ![k].hookErr = @ \/ failing # {},
                  ![k].task = IF WatchStops(HookReturns(failing))
                              THEN "done" ELSE @,
                  ![k].end = IF WatchStops(HookReturns(failing))
                             THEN "stopped" ELSE @]
    /\ UNCHANGED <<objs, registeredEvents, mLock, pc, arg, last, calls, nodeVars>>

\* WatchEvents sees its context cancelled and returns; the goroutine logs
TaskCancelled(k) ==
    /\ Alive
    /\ toks[k].task = "watching"
    /\ toks[k].cancelled
    /\ toks' = [toks EXCEPT ![k].task = "done", ![k].end = "cancelled"]
    /\ UNCHANGED <<objs, registeredEvents, mLock, pc, arg, last, calls, nodeVars>>

\* WatchEvents returns an error (the link is broken); the goroutine logs it
TaskAdapterFails(k) ==
    /\ Alive
    /\ toks[k].task = "watching"
    /\ toks' = [toks EXCEPT ![k].task = "done", ![k].end = "error"]
    /\ UNCHANGED <<objs, registeredEvents, mLock, pc, arg, last, calls, nodeVars>>

Next ==
    \/ \E t \in Threads, n \in Names : MkdirBegin(t, n)
    \/ \E t \in Threads : CreateEventScan(t)
    \/ \E t \in Threads : CreateEventFinish(t)
    \/ \E t \in Threads : MkdirFinish(t)
    \/ \E t \in Threads, o \in Objs, d \in WriteInputs : WriteBegin(t, o, d)
    \/ \E t \in Threads : WriteRun(t)
    \/ \E t \in Threads : WriteCancel(t)
    \/ \E t \in Threads, o \in Objs : Read(t, o)
    \/ \E o \in Objs, k \in Kinds : SetKind(o, k)
    \/ \E o \in Objs, p \in Policies : SetSuspendPolicy(o, p)
    \/ \E o \in Objs, h \in HookNames, p \in HookPaths :
          SetHookDescriptor(o, h, p)
    \/ \E o \in Objs, m \in ModNames, d \in ModDescs : SetModifier(o, m, d)
    \/ \E k \in Toks : TaskWatchEvents(k)
    \/ \E k \in Toks : \E f \in SUBSET HookNames : TaskDeliver(k, f)
    \/ \E k \in Toks : TaskCancelled(k)
    \/ \E k \in Toks : TaskAdapterFails(k)
    \/ \E t \in Threads, n \in Names : DeregisterBegin(t, n)
    \/ \E t \in Threads : DeregisterFinish(t)
    \/ \E t \in Threads, n \in Names, e \in {F_OK, ENOTSUP} :
          EventsRmdir(t, n, e)
    \/ \E t \in Threads, o \in Objs, n \in {"registered", "control"} :
          EventDirUnlink(t, o, n)

Spec == Init /\ [][Next]_vars
\* ------------------------------------- the links of one event's directories
\* the state after "mkdir events/a"
InitLinks ==
    /\ objs = <<NewStubDebuggingEvent("a")>>
    /\ registeredEvents = <<1>>
    /\ mLock = [w |-> NoThread, r |-> 0]
    /\ toks = <<>>
    /\ pc = [t \in Threads |-> "idle"]
    /\ arg = [t \in Threads |-> NoArg]
    /\ last = NoLast
    /\ calls = 0
    /\ dirs = <<>>
    /\ suspendCount = [tid \in Tids |-> 0]
    /\ vm = JvmStart
    /\ rlocks = {}
    /\ mounted = TRUE
    /\ slices = [NoSlices EXCEPT !.array = <<1>>]

Dirs == 1 .. Len(dirs)

NextLinks ==
    \/ \E t \in Threads, o \in Objs, n \in {"location", "hooks", "x"} :
          EventDirLookup(t, o, n)
    \/ \E t \in Threads, d \in Dirs, tg \in LocTargets, n \in LinkNames :
          \E evalOk \in BOOLEAN, jvmOk \in BOOLEAN :
             LocSymlinkBegin(t, d, tg, n, evalOk, jvmOk)
    \/ \E t \in Threads : LocSymlinkFinish(t)
    \/ \E t \in Threads, d \in Dirs, n \in LinkNames : LocUnlink(t, d, n)
    \/ \E t \in Threads, d \in Dirs, tg \in HookPaths, n \in HookNames :
          HooksSymlink(t, d, tg, n)
    \/ \E t \in Threads, d \in Dirs, n \in HookNames :
          \E e \in {F_OK, ENOTSUP} : HooksUnlink(t, d, n, e)
    \/ \E t \in Threads, o \in Objs, d \in WriteInputs : WriteBegin(t, o, d)
    \/ \E t \in Threads : WriteRun(t)
    \/ \E k \in Toks : TaskWatchEvents(k)
    \/ \E k \in Toks : \E f \in SUBSET HookNames : TaskDeliver(k, f)

SpecLinks == InitLinks /\ [][NextLinks]_vars
\* ------------------------------------------ the kind and suspendPolicy files
NextFiles ==
    \/ \E t \in Threads, o \in Objs, d \in KindInputs : KindWrite(t, o, d)
    \/ \E t \in Threads, o \in Objs : KindRead(t, o)
    \/ \E t \in Threads, o \in Objs, d \in PolicyInputs : PolicyWrite(t, o, d)
    \/ \E t \in Threads, o \in Objs : PolicyRead(t, o)

\* the files of one event, from the state after "mkdir events/a"
SpecFiles == InitLinks /\ [][NextFiles]_vars

\* ------------------------------------------------- the thread control files
NextThreads ==
    \/ \E t \in Threads, tid \in Tids, d \in ThreadInputs :
          \E jvm \in {"ok", "status fails", "call fails"} :
             ThreadWrite(t, tid, d, jvm)
    \/ \E t \in Threads, tid \in Tids, jvm \in {"ok", "status fails"} :
          \E flags \in {0, 1} : ThreadRead(t, tid, jvm, flags)
    \/ \E t \in Threads, d \in ThreadInputs, jvm \in {"ok", "call fails"} :
          ThreadsWrite(t, d, jvm)
    \/ \E t \in Threads : ThreadsRead(t)

SpecThreads == Init /\ [][NextThreads]_vars

\* ---------------------------- the listings of threads and classes of a JVM
NextListing ==
    \/ \E id \in JvmThreadIds, n \in ThreadNames : JvmThreadStart(id, n)
    \/ \E i \in 1 .. MaxJvmThreads : JvmThreadEnd(i)
    \/ \E i \in 1 .. Len(JvmClasses) : JvmClassUnload(i)
    \/ \E t \in Threads, jvmOk \in BOOLEAN : ThreadsReaddir(t, jvmOk)
    \/ \E t \in Threads, n \in LookupNames : ThreadsLookup(t, n)
    \/ \E t \in Threads, jvmOk \in BOOLEAN : ClassesReaddir(t, jvmOk)
    \/ \E t \in Threads, n \in LookupNames : ClassesLookup(t, n)
    \/ \E t \in Threads, jvmOk \in BOOLEAN, namesOk \in BOOLEAN :
          NamedReaddir(t, jvmOk, namesOk)
    \/ \E t \in Threads, n \in ThreadNames :
          \E jvmOk \in BOOLEAN, namesOk \in BOOLEAN :
             NamedLookup(t, n, jvmOk, namesOk)

SpecListing == Init /\ [][NextListing]_vars

\* ------------------------------ the hook and modifier maps of one event
NextConfig ==
    \/ \E o \in Objs, n \in LinkNames, p \in HookPaths :
          SetHookDescriptor(o, n, p)
    \/ \E o \in Objs, n \in LinkNames : RemoveHookDescriptor(o, n)
    \/ \E o \in Objs, n \in LinkNames, d \in ModDescs : SetModifier(o, n, d)
    \/ \E o \in Objs, n \in LinkNames : DeleteModifier(o, n)

\* the maps of one event, from the state after "mkdir events/a"
SpecConfig == InitLinks /\ [][NextConfig]_vars

\* ------------------------- the modifier map of one event, under its lock
NextModifiers ==
    \/ \E o \in Objs, n \in LinkNames, d \in ModDescs : SetModifier(o, n, d)
    \/ \E t \in Threads, o \in Objs, n \in LinkNames :
          DeleteModifierRLock(t, o, n)
    \/ \E t \in Threads, detected \in BOOLEAN : DeleteModifierDelete(t, detected)
    \/ \E t \in Threads, o \in Objs : GetModifiersRLock(t, o)
    \/ \E t \in Threads : GetModifiersCopy(t)

SpecModifiers == InitLinks /\ [][NextModifiers]_vars

\* ------------------------------------- the registry and a listing of it
NextRegistry ==
    \/ \E t \in Threads, n \in Names : MkdirBegin(t, n)
    \/ \E t \in Threads : CreateEventScan(t)
    \/ \E t \in Threads : CreateEventFinish(t)
    \/ \E t \in Threads : MkdirFinish(t)
    \/ \E t \in Threads, n \in Names : DeregisterBegin(t, n)
    \/ \E t \in Threads : DeregisterFinish(t)
    \/ \E t \in Threads : GetAllEvents(t)

SpecRegistry == Init /\ [][NextRegistry]_vars

\* ----------------------------------------- one event until the unmount
NextShutdown ==
    \/ \E t \in Threads, o \in Objs, d \in WriteInputs : WriteBegin(t, o, d)
    \/ \E t \in Threads : WriteRun(t)
    \/ \E t \in Threads : WriteCancel(t)
    \/ \E t \in Threads, o \in Objs : Read(t, o)
    \/ \E o \in Objs, h \in HookNames, p \in HookPaths :
          SetHookDescriptor(o, h, p)
    \/ \E k \in Toks : TaskWatchEvents(k)
    \/ \E k \in Toks : \E f \in SUBSET HookNames : TaskDeliver(k, f)
    \/ \E k \in Toks : TaskCancelled(k)
    \/ \E k \in Toks : TaskAdapterFails(k)
    \/ Unmount

SpecShutdown == InitLinks /\ [][NextShutdown]_vars

\* ------------------------------ activation of one event, with scheduling
NextActivation ==
    \/ \E t \in Threads, o \in Objs, d \in WriteInputs : WriteBegin(t, o, d)
    \/ \E t \in Threads : WriteRun(t)
    \/ \E t \in Threads : WriteCancel(t)
    \/ \E t \in Threads, o \in Objs : Read(t, o)
    \/ \E o \in Objs, h \in HookNames, p \in HookPaths :
          SetHookDescriptor(o, h, p)
    \/ \E k \in Toks : TaskWatchEvents(k)
    \/ \E k \in Toks : \E f \in SUBSET HookNames : TaskDeliver(k, f)
    \/ \E k \in Toks : TaskCancelled(k)
    \/ \E k \in Toks : TaskAdapterFails(k)

\* a callback thread that can take a step takes it; nothing is assumed of
\* the goroutines, of the adapter or of the JVM
SpecActivation ==
    /\ InitLinks
    /\ [][NextActivation]_vars
    /\ \A t \in Threads : WF_vars(WriteRun(t)) /\ WF_vars(WriteCancel(t))

\* ------------------------------------------------------------ properties
\* the goroutines of event o that have not returned
LiveTasks(o) ==
    {k \in Toks : toks[k].ev = o /\ toks[k].task \in {"spawned", "watching"}}

\* thread t returns from DebuggingEvent.Run in this step
RunStep(t) == pc[t] = "write_run" /\ pc'[t] = "idle"

\* thread t returns from DebuggingEvent.Cancel in this step
CancelStep(t) == pc[t] = "write_cancel" /\ pc'[t] = "idle"

\* C1: an event reports active (control reads "running") if and only if a
\* background subscription task started for it exists and has not terminated.
C1_ActiveIffTaskLive ==
    \A o \in Objs : ControlText(o) = "running" <=> LiveTasks(o) # {}

\* C2: a write of "run" or "1" (after trimming) to the control file of an idle
\* event whose hooks load succeeds with the full byte count, starts a
\* background subscription and leaves control reading "running".
C2_RunOrOneActivates ==
    ( /\ last.op = "write"
      /\ TrimSpace(last.data) \in {W_run, W_1}
      /\ ~last.pre
      /\ ~BuildFails(objs[last.obj].hookDescriptors) )
    => /\ last.errno = F_OK
       /\ last.written = Len(last.data)
       /\ ControlText(last.obj) = "running"
       /\ \E k \in Toks : toks[k].ev = last.obj /\ toks[k].task # "none"

\* C3: a write of "cancel" or "0" to the control file of an active event
\* returns errno 0 and the full byte count, and control then reads "idle".
C3_CancelOrZeroSucceeds ==
    ( /\ last.op = "write"
      /\ TrimSpace(last.data) \in {W_cancel, W_0}
      /\ last.pre )
    => /\ last.errno = F_OK
       /\ last.written = Len(last.data)
       /\ ControlText(last.obj) = "idle"

\* C4: the context of an event changes only in Run and Cancel; Run on an
\* active event returns an error, spawns nothing and keeps the token; Cancel
\* on an idle event returns an error and leaves the event idle.
C4_OnlyTwoTransitions ==
    [][ /\ \A o \in Objs :
             objs'[o].ctx # objs[o].ctx
                => \E t \in Threads :
                      arg[t].obj = o /\ (RunStep(t) \/ CancelStep(t))
        /\ \A t \in Threads :
             (RunStep(t) /\ IsRunning(arg[t].obj))
                => /\ last'.errno # F_OK
                   /\ toks' = toks
                   /\ objs'[arg[t].obj].ctx = objs[arg[t].obj].ctx
                   /\ objs'[arg[t].obj].cancel = objs[arg[t].obj].cancel
        /\ \A t \in Threads :
             (CancelStep(t) /\ ~IsRunning(arg[t].obj))
                => /\ last'.errno # F_OK
                   /\ objs'[arg[t].obj].ctx = NoCtx ]_vars

\* C5: when the hook runner cannot be built, Run on an idle event returns an
\* error and has no effect: the event is idle, no token is stored, no
\* goroutine is spawned.
C5_FailedActivateHasNoEffect ==
    [][ \A t \in Threads :
          ( /\ RunStep(t)
            /\ ~IsRunning(arg[t].obj)
            /\ BuildFails(objs[arg[t].obj].hookDescriptors) )
          => /\ last'.errno # F_OK
             /\ objs'[arg[t].obj].ctx = NoCtx
             /\ objs'[arg[t].obj].cancel = NoCtx
             /\ objs' = objs
             /\ \A k \in 1 .. Len(toks') :
                   k \in Toks \/ toks'[k].task = "none" ]_vars

\* C6: once WatchEvents has failed or returned in the goroutine of an
\* activation that nobody cancelled, that activation no longer marks the
\* event active.
C6_AdapterFailureClearsActive ==
    \A k \in Toks :
        (toks[k].task = "done" /\ ~toks[k].cancelled)
            => objs[toks[k].ev].ctx # k

\* C7: a hook error for a delivered JVM event does not end the subscription:
\* unless cancelled or failed in the adapter, it is still watching.
C7_HookErrorContinues ==
    \A k \in Toks :
        (toks[k].hookErr /\ ~toks[k].cancelled /\ toks[k].end # "error")
            => toks[k].task = "watching"

\* C8: Cancel has returned for an activation only if its goroutine has left
\* WatchEvents.
C8_CancelWaitsForTask ==
    \A k \in Toks :
        toks[k].cancelled => toks[k].task \notin {"spawned", "watching"}

\* C9: the subscribe call of an activation is issued with the kind and the
\* suspend policy the event had when Run was called.
C9_FrozenConfiguration ==
    \A k \in Toks :
        toks[k].subKind # NoSub
            => /\ toks[k].subKind = toks[k].actKind
               /\ toks[k].subPolicy = toks[k].actPolicy

\* names of the registered events are pairwise distinct
NamesUnique ==
    \A i, j \in 1 .. Len(registeredEvents) :
        objs[registeredEvents[i]].Name = objs[registeredEvents[j]].Name
            => i = j

\* C10: event names are unique in the registry in every state; CreateEvent of
\* a present name fails and leaves the registry unchanged, CreateEvent of a
\* new name appends exactly one fresh idle event of that name.
C10_UniqueNames ==
    [][ /\ NamesUnique'
        /\ \A t \in Threads :
             (pc[t] = "create_scanned" /\ pc'[t] # "create_scanned")
                => IF EventFound(arg[t].name)
                   THEN /\ registeredEvents' = registeredEvents
                        /\ objs' = objs
                        /\ last'.op = "mkdir" /\ last'.errno # F_OK
                   ELSE /\ registeredEvents' =
                              Append(registeredEvents, Len(objs) + 1)
                        /\ objs' = Append(objs,
                                      NewStubDebuggingEvent(arg[t].name))
                        /\ objs'[Len(objs) + 1].ctx = NoCtx ]_vars

\* C10 witness: two events are registered and a duplicate mkdir has failed
C10_Witness ==
    /\ Len(registeredEvents) = 2
    /\ last.op = "mkdir"
    /\ last.errno = EADDRNOTAVAIL
\* thread t returns from the second half of DeregisterEvent in this step
DeregisterStep(t) == pc[t] = "dereg_locked" /\ pc'[t] = "idle"

\* the objects the registry holds
Registered == {registeredEvents[i] : i \in 1 .. Len(registeredEvents)}

\* C11: DeregisterEvent never removes an active event: under m.mu it erases
\* an event it sees inactive, and on an active event it returns an error and
\* leaves the registry unchanged; no event absent from the registry is active,
\* whatever activation runs concurrently.
C11_RemoveOnlyInactive ==
    [][ /\ \A o \in 1 .. Len(objs') :
             (\A i \in 1 .. Len(registeredEvents') : registeredEvents'[i] # o)
                => objs'[o].ctx = NoCtx
        /\ \A t \in Threads :
             DeregisterStep(t)
                => IF IsRunning(arg[t].obj)
                   THEN /\ registeredEvents' = registeredEvents
                        /\ last'.errno # F_OK
                   ELSE /\ mLock.w = t
                        /\ arg[t].obj \in Registered
                        /\ registeredEvents' =
                              SelectSeq(registeredEvents,
                                        LAMBDA x : x # arg[t].obj)
                        /\ last'.errno = F_OK ]_vars

\* C11 witness: an event was removed while another thread, past the IsRunning
\* test of a write of "1", is about to call Run on it
C11_Witness ==
    \E t \in Threads :
        /\ pc[t] = "write_run"
        /\ arg[t].obj \notin Registered
        /\ last.op = "deregister" /\ last.errno = F_OK
\* C12: rmdir events/<name> of an idle event removes it from the registry, so
\* that readdir of events/ no longer lists it and lookup returns not-found;
\* rmdir of an active event fails and the event remains.
C12_RmdirDeletesIdleEvent ==
    (last.op = "rmdir" /\ last.res = "present")
        => IF last.pre
           THEN /\ last.errno # F_OK
                /\ EventsLookup(last.name) = F_OK
           ELSE /\ \A i \in DOMAIN EventsReaddir :
                      EventsReaddir[i] # last.name
                /\ EventsLookup(last.name) = ENOENT
\* a callback of event o is between SetModifier and the append of Symlink
Linking(o) == \E t \in Threads : pc[t] = "symlink_link" /\ arg[t].obj = o

\* d is the only node ever built for its directory
OnlyNode(d) ==
    \A e \in Dirs :
        (dirs[e].event = dirs[d].event /\ dirs[e].kind = dirs[d].kind)
            => e = d

\* C13: after any sequence of symlink and unlink operations in location/ and
\* hooks/ of an event, the number of entries of its modifier map equals the
\* number of links readdir of location/ lists, and the number of entries of
\* its hook map equals the number of links readdir of hooks/ lists.
C13_MapsMatchLinks ==
    \A d \in Dirs :
        (OnlyNode(d) /\ ~Linking(dirs[d].event))
            => IF dirs[d].kind = "location"
               THEN Cardinality(DOMAIN objs[dirs[d].event].modifierDescriptors)
                        = Len(DirReaddir(d))
               ELSE Cardinality(DOMAIN objs[dirs[d].event].hookDescriptors)
                        = Len(DirReaddir(d))

\* a successful Unlink of location/ is this step
UnlinkStep ==
    /\ calls' = calls + 1
    /\ last'.op = "unlink"
    /\ last'.errno = F_OK
    /\ dirs[last'.dir].kind = "location"

\* the names some location/ node of event o lists, or is about to list
LinkedNames(o) ==
    UNION {{dirs[d].links[i].name : i \in 1 .. Len(dirs[d].links)} :
             d \in {e \in Dirs : dirs[e].event = o
                                   /\ dirs[e].kind = "location"}}
    \cup {arg[t].name : t \in {u \in Threads : pc[u] = "symlink_link"
                                                /\ arg[u].obj = o}}

\* C14: unlink of location/<m> removes the link and the modifier m of the
\* event, so an activation performed after the unlink does not pass that
\* modifier to the subscription.
C14_UnlinkRemovesModifier ==
    [][ /\ UnlinkStep
             => last'.name \notin DOMAIN objs'[last'.obj].modifierDescriptors
        /\ \A t \in Threads :
             RunStep(t)
                => toks'[Len(toks')].modifiers
                     = {ToEventModifier(objs[arg[t].obj].modifierDescriptors[m]) :
                           m \in DOMAIN objs[arg[t].obj].modifierDescriptors
                                   \cap LinkedNames(arg[t].obj)} ]_vars
\* a Lookup of "location" or "hooks" returns a new node in this step
LookupStep ==
    /\ calls' = calls + 1
    /\ last'.op = "lookup"
    /\ last'.dir # 0

\* C15: a link created by a successful symlink in location/ (or hooks/) is
\* listed by every later readdir of that directory until it is unlinked,
\* also by a readdir reached through a fresh lookup of the directory.
C15_FreshLookupListsLinks ==
    [][ LookupStep
          => \A d \in Dirs :
               ( /\ dirs[d].event = dirs'[last'.dir].event
                 /\ dirs[d].kind = dirs'[last'.dir].kind )
               => \A i \in DOMAIN DirReaddir(d) :
                    \E j \in 1 .. Len(dirs'[last'.dir].links) :
                       dirs'[last'.dir].links[j].name = DirReaddir(d)[i] ]_vars

\* a Symlink of hooks/ returns in this step
HooksSymlinkStep ==
    /\ calls' = calls + 1
    /\ last'.op = "symlink"
    /\ dirs[last'.dir].kind = "hooks"

\* the names the hooks/ nodes of event o list
HookLinks(o) ==
    UNION {{dirs[d].links[i].name : i \in 1 .. Len(dirs[d].links)} :
             d \in {e \in Dirs : dirs[e].event = o /\ dirs[e].kind = "hooks"}}

\* C16: a symlink h -> T in hooks/ registers the hook descriptor (h, T) on
\* the event, so that the next activation builds its hook runner from it; a
\* second symlink of the same name fails and leaves the first in place.
C16_HookSymlinkRegisters ==
    [][ /\ HooksSymlinkStep
          => IF last'.name \in HookLinks(last'.obj)
             THEN last'.errno # F_OK /\ dirs' = dirs /\ objs' = objs
             ELSE /\ last'.errno = F_OK
                  /\ last'.name \in DOMAIN objs'[last'.obj].hookDescriptors
                  /\ objs'[last'.obj].hookDescriptors[last'.name] = last'.data
        /\ \A t \in Threads :
             RunStep(t)
               => HookLinks(arg[t].obj)
                     \subseteq DOMAIN toks'[Len(toks')].actHooks ]_vars
\* a Read of kind returns in this step, right after a successful Write of
\* kind to the same event
KindReadAfterWrite ==
    /\ calls' = calls + 1
    /\ last'.op = "kind_read"
    /\ last.op = "kind_write"
    /\ last.errno = F_OK
    /\ last.obj = last'.obj

\* C17: for each of the 17 symbolic kind names a write to kind accepts, a
\* read of kind that follows the write, with no write in between, returns
\* that name.
C17_KindRoundTrip ==
    [][ /\ KindReadAfterWrite => last'.res = TrimSpace(last.data)
        /\ (calls' = calls + 1 /\ last'.op = "kind_write")
             => ( last'.errno = F_OK
                    <=> \E i \in 1 .. 17 :
                           TrimSpace(last'.data) = EventKindNames[i] ) ]_vars

\* a read of kind has returned the name written before it
C17_Witness ==
    /\ last.op = "kind_read"
    /\ last.res = <<"M", "e", "t", "h", "o", "d", "E", "n", "t", "r", "y">>
    /\ calls = 2

\* a Write of kind or suspendPolicy is refused in this step
RefusedWrite ==
    /\ calls' = calls + 1
    /\ last'.op \in {"kind_write", "policy_write"}
    /\ last'.errno # F_OK

\* C18: a write to kind or suspendPolicy of a string that is not an accepted
\* name returns a non-zero errno (unsupported value) and leaves kind and
\* suspend policy unchanged, so a following read returns the value set
\* before.
C18_UnknownValueRefused ==
    [][ /\ ( /\ calls' = calls + 1
             /\ last'.op = "kind_write"
             /\ TrimSpace(last'.data) \notin DOMAIN eventKindReprMap )
           => RefusedWrite
        /\ ( /\ calls' = calls + 1
             /\ last'.op = "policy_write"
             /\ TrimSpace(last'.data) \notin DOMAIN suspendPolicyReprMap )
           => RefusedWrite
        /\ RefusedWrite
           => /\ last'.errno = EAFNOSUPPORT
              /\ last'.written = 0
              /\ objs' = objs
              /\ EventKindString(objs'[last'.obj].kind)
                    = EventKindString(objs[last'.obj].kind)
        /\ (calls' = calls + 1 /\ last'.op = "kind_read")
           => last'.res = EventKindString(objs[last'.obj].kind)
        /\ (calls' = calls + 1 /\ last'.op = "policy_read")
           => last'.res = SuspendPolicyString(objs[last'.obj].suspendPolicy)
      ]_vars

\* an unknown kind has been refused after a kind and a suspend policy had
\* been set
C18_Witness ==
    /\ last.op = "kind_write"
    /\ last.errno = EAFNOSUPPORT
    /\ TrimSpace(last.data) = <<"x", "y", "z">>
    /\ objs[last.obj].kind = MethodExit
    /\ objs[last.obj].suspendPolicy = SuspendAll
\* thread t appends the event it created to the registry in this step
CreateStep(t) == pc[t] = "create_scanned" /\ pc'[t] = "mkdir_get"

\* thread t returns from a successful Mkdir in this step
MkdirStep(t) ==
    pc[t] = "mkdir_get" /\ pc'[t] = "idle" /\ last'.errno = F_OK

\* C19: a successful mkdir events/<n> creates an event that is idle with
\* kind VM-death, suspend policy none, no modifiers and no hooks; readdir of
\* events/ then lists n exactly once, readdir of events/<n> lists exactly
\* control, kind, suspendPolicy, location and hooks, and control reads "idle".
C19_MkdirDefaults ==
    [][ \A t \in Threads :
          /\ CreateStep(t)
               => LET e == objs'[Len(objs')] IN
                  /\ Len(objs') = Len(objs) + 1
                  /\ e.Name = arg[t].name
                  /\ e.ctx = NoCtx
                  /\ e.kind = VMDeath
                  /\ EventKindString(e.kind) = <<"V", "M", "D", "e", "a", "t", "h">>
                  /\ e.suspendPolicy = SuspendNone
                  /\ DOMAIN e.modifierDescriptors = {}
                  /\ DOMAIN e.hookDescriptors = {}
                  /\ Cardinality({i \in 1 .. Len(registeredEvents') :
                        objs'[registeredEvents'[i]].Name = arg[t].name}) = 1
          /\ MkdirStep(t)
               => /\ Cardinality({i \in DOMAIN EventsReaddir :
                        EventsReaddir[i] = arg[t].name}) = 1
                  /\ EventsLookup(arg[t].name) = F_OK
                  /\ Len(EventDirReaddir) = 5
                  /\ {EventDirReaddir[i] : i \in DOMAIN EventDirReaddir}
                       = {"control", "kind", "suspendPolicy", "location",
                          "hooks"} ]_vars

\* a mkdir has returned successfully and the control file of the event it
\* created reads "idle"
C19_Witness ==
    /\ last.op = "mkdir"
    /\ last.errno = F_OK
    /\ last.obj \in Registered
    /\ ControlText(last.obj) = "idle"
    /\ objs[last.obj].kind = VMDeath
\* C20: on threads/<tid>/control, writing "running" or "1" resumes the thread
\* and writing "suspend" or "0" suspends it: after "suspend" or "0" to a
\* running thread a read returns "suspended", after "running" or "1" to a
\* suspended thread a read returns "running"; any other text is rejected
\* with a bad-value error and issues no JVM call.
C20_ThreadControlWrite ==
    (last.op = "thread_write" /\ last.errno # EACCES)
       => LET cmd == TrimSpace(last.data) IN
          /\ (cmd \in {W_suspend, W_0} /\ last.count = 0
                /\ last.errno = F_OK)
               => /\ last.res = "Suspend"
                  /\ ThreadControlText(last.obj) = "suspended"
          /\ (cmd \in {W_running, W_1} /\ last.count = 1
                /\ last.errno = F_OK)
               => /\ last.res = "Resume"
                  /\ ThreadControlText(last.obj) = "running"
          /\ cmd \notin {W_suspend, W_0, W_running, W_1}
               => last.errno = EFAULT /\ last.res = "none"
\* C21: writing to threads/<tid>/control the value of its current state
\* ("running" or "1" while the thread runs, "suspend" or "0" while it is
\* suspended) issues neither a suspend nor a resume call and leaves the
\* thread's suspend status and suspend count unchanged.
C21_CurrentStateIsNoOp ==
    (last.op = "thread_write" /\ last.errno # EACCES)
       => LET cmd == TrimSpace(last.data) IN
          ( \/ cmd \in {W_running, W_1} /\ last.count = 0
            \/ cmd \in {W_suspend, W_0} /\ last.count > 0 )
          => /\ last.res = "none"
             /\ suspendCount[last.obj] = last.count
\* C22: on threads/control, writing "running" or "1" invokes resume-all and
\* writing "suspend" or "0" invokes suspend-all, exactly once per write; any
\* other text is rejected and invokes neither; a read returns empty content.
C22_MasterControlWrite ==
    /\ last.op = "threads_write"
         => LET cmd == TrimSpace(last.data) IN
            /\ cmd \in {W_running, W_1} => last.res = "ResumeAll"
            /\ cmd \in {W_suspend, W_0} => last.res = "SuspendAll"
            /\ cmd \notin {W_running, W_1, W_suspend, W_0}
                 => last.errno # F_OK /\ last.res = "none"
    /\ last.op = "threads_read" => last.res = "" /\ last.errno = F_OK
\* a Read of threads/<tid>/control returns its text in this step
ThreadReadStep ==
    /\ calls' = calls + 1
    /\ last'.op = "thread_read"
    /\ last'.errno = F_OK

\* C23: reading threads/<tid>/control returns "running" when the JVM reports
\* suspend status 0, "suspended" when it reports 1 and "not implemented" for
\* every other value; the read queries the JVM each time and never returns
\* a value cached from an earlier read or write.
C23_ThreadControlRead ==
    [][ ThreadReadStep
          => /\ last'.status % 2 = SuspendStatus(last'.obj)
             /\ last'.status = 0 => last'.res = "running"
             /\ last'.status = 1 => last'.res = "suspended"
             /\ last'.status \notin {0, 1} => last'.res = "not implemented"
      ]_vars

\* a read has returned "suspended" for a thread that an earlier write
\* suspended, and the call before it was a read that returned another text
C23_Witness ==
    /\ last.op = "thread_read"
    /\ last.res = "suspended"
    /\ suspendCount[last.obj] = 1
    /\ calls = 3
\* the ids of the JVM's current thread listing, and of its class listing
ListedThreads == {vm.threads[i].id : i \in 1 .. Len(vm.threads)}
ListedClasses == {vm.classes[i].TypeID : i \in 1 .. Len(vm.classes)}

\* a Lookup of a numeric name returns in this step
NumericLookupStep(op) ==
    /\ calls' = calls + 1
    /\ last'.op = op
    /\ ParseOk(last'.data)

\* C24: lookup in threads/ and in classes/ consults the JVM on every call
\* and returns not-found for a numeric id that is not in the JVM's current
\* thread (class) listing, including an id that an earlier readdir listed
\* and that has since disappeared.
C24_LookupConsultsJvm ==
    [][ /\ ( /\ NumericLookupStep("threads_lookup")
             /\ ParseUint(last'.data) \notin ListedThreads )
           => last'.errno = ENOENT
        /\ ( /\ NumericLookupStep("classes_lookup")
             /\ ParseUint(last'.data) \notin ListedClasses )
           => last'.errno = ENOENT
      ]_vars

\* a Readdir, a Lookup of threads_by_name/ returns in this step, the JVM
\* having answered
NamedStep(op) ==
    /\ calls' = calls + 1
    /\ last'.op = op
    /\ last'.pre

\* C25: for any JVM thread set, readdir(threads_by_name) returns exactly one
\* entry per entry of readdir(threads), and every such entry, when looked
\* up, is a symlink whose target is <mount>/threads/<tid> for the tid of the
\* thread carrying that name.
C25_NamedMirrorsThreads ==
    [][ /\ NamedStep("named_readdir")
           => Len(last'.res) = Len(ThreadEntries(vm.threads))
        /\ NamedStep("named_lookup")
           => \A i \in 1 .. Len(vm.threads) :
                 vm.threads[i].name = last'.name
                    => /\ last'.errno = F_OK
                       /\ last'.res = ThreadPath(vm.threads[i].id)
      ]_vars
\* the target lies under the mount's root directory
UnderMount(target) ==
    \/ target = absoluteMountpoint
    \/ HasPrefix(target, absoluteMountpoint \o Sl)

\* the path components of a target below the mount root
RelComponents(target) ==
    SelectSeq(Split(SubSeq(target, Len(absoluteMountpoint) + 1, Len(target))),
              LAMBDA c : c # <<>>)

\* the target has the shape classes/<class-id>/(methods|fields)/<id>
ShapeOk(target) ==
    /\ Len(RelComponents(target)) = 4
    /\ RelComponents(target)[1] = S_classes
    /\ RelComponents(target)[3] \in {S_methods, S_fields}

\* a Symlink of location/ ends in this step without binding a modifier
SymlinkRefused == calls' = calls + 1 /\ last'.op = "symlink"

\* the Symlink of thread t binds a modifier in this step
SymlinkBinds(t) == pc[t] = "idle" /\ pc'[t] = "symlink_link"

\* C26: a symlink in location/ whose normalised absolute target does not
\* lie under the mount's absolute root directory is rejected with a bad-path
\* error and leaves the event's modifiers and the directory's links
\* unchanged; this includes a target in a sibling directory whose path
\* merely starts with the same characters as the mount root.
C26_OutsideMountRejected ==
    [][ /\ \A t \in Threads :
              SymlinkBinds(t) => UnderMount(arg'[t].data)
        /\ (SymlinkRefused /\ last'.pre /\ ~UnderMount(last'.data))
              => /\ last'.errno = EBADE
                 /\ objs' = objs
                 /\ dirs' = dirs
      ]_vars

\* C27: for a symlink target under the mount, every path shape other than
\* classes/<class-id>/(methods|fields)/<id> makes the location/ symlink fail
\* with a bad-path error code returned to the caller, for every number of
\* path components including zero (target equal to the mount root); the
\* callback always returns a result code.
C27_WrongShapeRejected ==
    [][ /\ \A t \in Threads :
              (SymlinkBinds(t) /\ UnderMount(arg'[t].data))
                 => ShapeOk(arg'[t].data)
        /\ ( /\ SymlinkRefused
             /\ last'.pre
             /\ UnderMount(last'.data)
             /\ ~ShapeOk(last'.data) )
              => last'.errno = EBADE
        /\ SymlinkRefused => last'.errno # Panics
      ]_vars

\* the class id of the target is absent from the class listing
ClassAbsent(target) ==
    /\ UnderMount(target)
    /\ ShapeOk(target)
    /\ ParseOk(RelComponents(target)[2])
    /\ \A i \in 1 .. Len(JvmClasses) :
          JvmClasses[i].TypeID # ParseUint(RelComponents(target)[2])

\* the class of the target is listed, its method or field id is not
MemberAbsent(target) ==
    /\ UnderMount(target)
    /\ ShapeOk(target)
    /\ ParseOk(RelComponents(target)[2])
    /\ ParseOk(RelComponents(target)[4])
    /\ ~ClassAbsent(target)
    /\ LET c == ParseUint(RelComponents(target)[2])
           members == IF RelComponents(target)[3] = S_methods
                      THEN JvmMethods(c) ELSE JvmFields(c)
       IN \A i \in 1 .. Len(members) :
             members[i].ID # ParseUint(RelComponents(target)[4])

\* C28: when resolving a location/ symlink, a class id absent from the
\* current class listing and a method/field id absent from that class's
\* member listing fail with two different error codes (class-not-found
\* versus member-not-found).
C28_DistinctNotFoundCodes ==
    (last.op = "symlink" /\ last.pre /\ last.jvmOk)
       => /\ (ClassAbsent(last.data) \/ MemberAbsent(last.data))
                => last.errno \notin {F_OK, Panics}
          /\ MemberAbsent(last.data)
                => last.errno # ResolveTarget(T_noclass, last.name, TRUE, TRUE).errno

\* the jdwp.ClassInfo of class c in the JVM's listing
ClassInfoOf(c) ==
    JvmClasses[CHOOSE i \in 1 .. Len(JvmClasses) : JvmClasses[i].TypeID = c]

\* the modifier the target names
NamedModifier(target) ==
    LET c == ParseUint(RelComponents(target)[2])
        id == ParseUint(RelComponents(target)[4])
    IN IF RelComponents(target)[3] = S_methods
       THEN [tag |-> "LocationOnly", Type |-> ClassInfoOf(c).Kind,
             Class |-> c, Method |-> id, Location |-> 0]
       ELSE [tag |-> "FieldOnly", Type |-> c, Field |-> id]

\* C29: a successful symlink in location/ to classes/<c>/methods/<m> binds a
\* location-only modifier carrying the type tag and id of class c itself,
\* method id m and code index 0, and to classes/<c>/fields/<f> a field-only
\* modifier carrying class c and field f, whatever the position of c (m, f)
\* in the JVM's class (member) listing and however many other classes are
\* loaded.
C29_ModifierOfTarget ==
    [][ \A t \in Threads :
           (SymlinkBinds(t) /\ UnderMount(arg'[t].data))
              => ToEventModifier(
                     objs'[arg'[t].obj].modifierDescriptors[arg'[t].name])
                    = NamedModifier(arg'[t].data)
      ]_vars
\* a call of the named operation of the event object returns in this step
ConfigStep(op) == calls' = calls + 1 /\ last'.op = op

\* C30: on the event object, add-hook with a name already present fails and
\* leaves the existing reference unchanged; remove-hook and remove-modifier
\* with an absent name fail and change nothing; add-modifier with a name
\* already present overwrites its value and leaves the number of modifiers
\* unchanged (binding the same name twice equals binding it once).
C30_EventMapOperations ==
    [][ LET o == last'.obj
            name == last'.name
            hooks == objs[o].hookDescriptors
            modifiers == objs[o].modifierDescriptors
        IN
        /\ (ConfigStep("SetHookDescriptor") /\ name \in DOMAIN hooks)
              => last'.errno # F_OK /\ objs' = objs
        /\ (ConfigStep("RemoveHookDescriptor") /\ name \notin DOMAIN hooks)
              => last'.errno # F_OK /\ objs' = objs
        /\ (ConfigStep("DeleteModifier") /\ name \notin DOMAIN modifiers)
              => last'.errno # F_OK /\ objs' = objs
        /\ (ConfigStep("SetModifier") /\ name \in DOMAIN modifiers)
              => /\ last'.errno = F_OK
                 /\ objs'[o].modifierDescriptors
                       = [modifiers EXCEPT ![name] = last'.res]
                 /\ objs'[o].hookDescriptors = hooks
        /\ ( /\ ConfigStep("SetModifier")
             /\ name \in DOMAIN modifiers
             /\ modifiers[name] = last'.res )
              => objs' = objs
      ]_vars

\* add-modifier has overwritten one of two bound names, of an event that
\* has a hook
C30_Witness ==
    /\ last.op = "SetModifier"
    /\ last.pre
    /\ Cardinality(DOMAIN objs[last.obj].modifierDescriptors) = 2
    /\ objs[last.obj].hookDescriptors # <<>>
\* thread t is inside a call that mutates the modifier map of event o
Mutating(t, o) == pc[t] = "delete_modifier" /\ arg[t].obj = o

\* C31: every mutation of an event's configuration (kind, policy, hook map,
\* modifier map) runs while holding the event's lock exclusively, so no
\* mutation of the modifier map can execute concurrently with a reader
\* taking a snapshot (GetModifiers) or with another remove-modifier on the
\* same event.
C31_MutationsExclusive ==
    \A t \in Threads, o \in Objs :
        Mutating(t, o)
           => \A u \in Threads \ {t} : <<u, o>> \notin rlocks
\* the registry is the filled part of its array
RegistryInArray ==
    registeredEvents = SubSeq(slices.array, 1, Len(registeredEvents))

\* C32: list() returns a snapshot of the registry in creation order: the
\* sequence a caller received is not changed by a create or remove that
\* completes after list() returned.
C32_ListIsSnapshot ==
    /\ last.op = "list" => last.res = slices.got
    /\ slices.held => slices.view = slices.got
\* the objects the manager has registered
RegisteredObjs == {registeredEvents[i] : i \in 1 .. Len(registeredEvents)}

\* a read or write of a control file returns in this step through a node
\* whose event the manager no longer has
StaleNodeStep ==
    /\ last' # last
    /\ last'.op \in {"read", "write"}
    /\ last'.obj \notin RegisteredObjs

\* C33: filesystem nodes reference their event by name, not by object: once
\* an event has been removed from the manager, every operation through a
\* node created earlier for it (read or write of control, kind,
\* suspendPolicy; symlink in location/) behaves as a lookup miss and neither
\* reads nor mutates the removed event object.
C33_StaleNodeIsLookupMiss ==
    [][ StaleNodeStep => last'.errno = ENOENT /\ objs' = objs ]_vars
\* C34: at process shutdown every active event is cancelled before the
\* filesystem is unmounted: in the state where unmount is performed, no
\* event is active and no background subscription task is running.
C34_CancelBeforeUnmount ==
    [][ (mounted /\ ~mounted')
           => /\ \A o \in Objs : ~IsRunning(o)
              /\ \A k \in Toks : ~LiveTask(k)
      ]_vars
\* the Write of thread t that called Run returns in this step
ActivationReturns(t) == pc[t] = "write_run" /\ pc'[t] = "idle"

RunnerHooks == 1 .. MaxHooks
LoadedRunners ==
    {r \in UNION {[1 .. n -> RunnerHooks] : n \in 0 .. MaxHooks} :
        \A i, j \in DOMAIN r : r[i] = r[j] => i = j}
Range(f) == {f[i] : i \in DOMAIN f}

\* PluginErrors.AddError wraps the hook's error err
PluginError(err) == [message |-> "error processing plugin", err |-> err]

\* the loop of Entrypoint left at the first hook that returns an error
RECURSIVE Entrypoint_StopsAtFirstError(_, _, _, _)
RECURSIVE EntrypointLoop(_, _, _, _)
Entrypoint_StopsAtFirstError(plugins, event, failing, acc) ==
    IF plugins = <<>> THEN acc
    ELSE LET p == Head(plugins)
             called == Append(acc.calls, <<p, event>>)
         IN  IF p \in failing
             THEN [calls |-> called,
                   errors |-> Append(acc.errors, PluginError(p))]
             ELSE Entrypoint_StopsAtFirstError(Tail(plugins), event, failing,
                      [calls |-> called, errors |-> acc.errors])
\* the loop of Entrypoint over r.plugins: each instance's entrypoint is
\* called with (name, event); an error is added to finalResult and the
\* loop goes on
EntrypointLoop(plugins, event, failing, acc) ==
    IF plugins = <<>> THEN acc
    ELSE LET p == Head(plugins)
             called == Append(acc.calls, <<p, event>>)
         IN  EntrypointLoop(Tail(plugins), event, failing,
                 [calls |-> called,
                  errors |-> IF p \in failing
                             THEN Append(acc.errors, PluginError(p))
                             ELSE acc.errors])

\* PluginErrors.HasErrors
HasErrors(finalResult) == Len(finalResult) # 0

\* PluginRunner.Entrypoint: the calls it made, and the error it returns
\* (finalResult when it has errors, nil otherwise)
Entrypoint(plugins, event, failing) ==
    LET r == EntrypointLoop(plugins, event, failing,
                            [calls |-> <<>>, errors |-> <<>>])
    IN  [calls |-> r.calls,
         isNil |-> ~HasErrors(r.errors),
         errors |-> IF HasErrors(r.errors) THEN r.errors ELSE <<>>]

\* one JVM event of kind "event" is handed to a runner holding "plugins";
\* the hooks of "failing" return an error
RunnerEntrypoint(plugins, event, failing) ==
    /\ failing \subseteq Range(plugins)
    /\ last' = [NoLast EXCEPT !.op = "entrypoint",
                              !.data = plugins,
                              !.count = event,
                              !.pre = failing,
                              !.res = Entrypoint(plugins, event, failing)]
    /\ UNCHANGED <<objs, registeredEvents, mLock, toks, pc, arg, calls,
                   nodeVars>>

NextHooks ==
    \E plugins \in LoadedRunners : \E event \in Kinds :
        \E failing \in SUBSET RunnerHooks :
            RunnerEntrypoint(plugins, event, failing)

SpecHooks == InitLinks /\ [][NextHooks]_vars

\* how many calls of the last Entrypoint went to hook p with the event
CallsTo(p) ==
    Cardinality({i \in DOMAIN last.res.calls :
                    last.res.calls[i] = <<p, last.count>>})
\* how many entries of the returned aggregate wrap the error of hook p
ErrorsOf(p) ==
    Cardinality({i \in DOMAIN last.res.errors : last.res.errors[i].err = p})

\* C36: for each delivered JVM event the hook runner invokes every loaded
\* hook exactly once with (hook-name, event), also when an earlier hook
\* returned an error; the aggregate it returns holds exactly one entry per
\* failing hook, and it returns no error if and only if no hook failed.
C36_EveryHookRunsOnce ==
    last.op = "entrypoint" =>
        /\ Len(last.res.calls) = Len(last.data)
        /\ \A p \in Range(last.data) : CallsTo(p) = 1
        /\ Len(last.res.errors) = Cardinality(last.pre)
        /\ \A p \in Range(last.data) :
              ErrorsOf(p) = IF p \in last.pre THEN 1 ELSE 0
        /\ last.res.isNil <=> last.pre = {}

\* the first hook of a runner failed and the hooks after it were still
\* called, one of them failing as well
C36_Witness ==
    /\ last.op = "entrypoint"
    /\ Len(last.data) = MaxHooks
    /\ last.data[1] \in last.pre
    /\ last.data[MaxHooks] \in last.pre
    /\ Cardinality(last.pre) = 2
    /\ Len(last.res.calls) = MaxHooks
    /\ Len(last.res.errors) = 2
    /\ ~last.res.isNil
\* ---------------------------------------------------------------------
\* EventManager.RunEvent, EventManager.CancelEvent

ManagerResult(op, name, o, pre, err) ==
    [NoLast EXCEPT !.op = op, !.name = name, !.obj = o, !.pre = pre,
                   !.errno = err]

\* threads inside RunEvent that are about to call event.Run
ManagerRunning == {t \in Threads : pc[t] = "mgr_run"}

\* RunEvent: m.mu.RLock and the scan; an unknown name returns the error
\* with the read lock still held, a known one reaches m.mu.RUnlock
RunEventBegin(t, name) ==
    /\ pc[t] = "idle"
    /\ Alive
    /\ Called
    /\ CanRLock(t)
    /\ IF EventFound(name)
       THEN /\ Len(toks) + Cardinality(ManagerRunning) < MaxTokens
            /\ pc' = [pc EXCEPT ![t] = "mgr_run"]
            /\ arg' = [arg EXCEPT ![t] =
                         [NoArg EXCEPT !.op = "run", !.name = name,
                                       !.obj = FoundEvent(name)]]
            /\ UNCHANGED <<mLock, last>>
       ELSE /\ mLock' = [mLock EXCEPT !.r = @ + 1]
            /\ Return(t, ManagerResult("run", name, 0, FALSE,
                                       "unable to find event"))
    /\ UNCHANGED <<objs, registeredEvents, toks, nodeVars>>

\* RunEvent: event.Run, whose error RunEvent returns
RunEventRun(t) ==
    LET o == arg[t].obj
        k == Len(toks) + 1
        failed == BuildFails(objs[o].hookDescriptors)
    IN
    /\ pc[t] = "mgr_run"
    /\ MuFree(o)
    /\ objs' = [objs EXCEPT ![o].ctx = k, ![o].cancel = k]
    /\ toks' = Append(toks, NewToken(o, ~failed))
    /\ Return(t, ManagerResult("run", arg[t].name, o, TRUE,
                               IF failed THEN "plugin builder error"
                               ELSE F_OK))
    /\ UNCHANGED <<registeredEvents, mLock, calls, nodeVars>>

\* CancelEvent: m.mu.RLock, defer m.mu.RUnlock, the scan; an unknown name
\* returns the error and the deferred RUnlock runs; a known one reaches the
\* m.mu.RUnlock before event.Cancel
CancelEventBegin(t, name) ==
    /\ pc[t] = "idle"
    /\ Alive
    /\ Called
    /\ CanRLock(t)
    /\ IF EventFound(name)
       THEN /\ pc' = [pc EXCEPT ![t] = "mgr_cancel"]
            /\ arg' = [arg EXCEPT ![t] =
                         [NoArg EXCEPT !.op = "cancel", !.name = name,
                                       !.obj = FoundEvent(name)]]
            /\ UNCHANGED last
       ELSE Return(t, ManagerResult("cancel", name, 0, FALSE,
                                    "unable to find event"))
    /\ UNCHANGED <<objs, registeredEvents, mLock, toks, nodeVars>>

\* sync.RWMutex.RUnlock with no reader is the fatal error "sync: RUnlock of
\* unlocked RWMutex", which ends the process
RUnlockFatal == mLock.r = 0

\* CancelEvent: event.Cancel, then the deferred m.mu.RUnlock, the second
\* RUnlock of the one RLock
CancelEventCancel(t) ==
    LET o == arg[t].obj
        k == objs[o].cancel
        err == IF objs[o].ctx = NoCtx THEN "event is not running"
               ELSE CtxErr([toks[k] EXCEPT !.cancelled = TRUE])
        res == ManagerResult("cancel", arg[t].name, o, IsRunning(o), err)
    IN
    /\ pc[t] = "mgr_cancel"
    /\ MuFree(o)
    /\ IF objs[o].ctx = NoCtx
       THEN UNCHANGED <<objs, toks>>
       ELSE /\ toks' = [toks EXCEPT ![k].cancelled = TRUE]
            /\ objs' = [objs EXCEPT ![o].ctx = NoCtx, ![o].cancel = NoCtx]
    /\ IF RUnlockFatal
       THEN /\ Crash(t, res)
            /\ UNCHANGED mLock
       ELSE /\ Return(t, res)
            /\ mLock' = [mLock EXCEPT !.r = @ - 1]
    /\ UNCHANGED <<registeredEvents, calls, nodeVars>>

NextManager ==
    \/ \E t \in Threads, n \in Names : MkdirBegin(t, n)
    \/ \E t \in Threads : CreateEventScan(t)
    \/ \E t \in Threads : CreateEventFinish(t)
    \/ \E t \in Threads : MkdirFinish(t)
    \/ \E t \in Threads, n \in Names : RunEventBegin(t, n)
    \/ \E t \in Threads : RunEventRun(t)
    \/ \E t \in Threads, n \in Names : CancelEventBegin(t, n)
    \/ \E t \in Threads : CancelEventCancel(t)
    \/ \E t \in Threads, n \in Names : DeregisterBegin(t, n)
    \/ \E t \in Threads : DeregisterFinish(t)
    \/ \E t \in Threads : GetAllEvents(t)

SpecManager == Init /\ [][NextManager]_vars

\* CancelEvent of thread t leaves event.Cancel and its deferred call
CancelEventEnds(t) == pc[t] = "mgr_cancel" /\ pc'[t] # "mgr_cancel"
\* CancelEvent of thread t returns from its scan
CancelEventMisses(t) ==
    /\ pc[t] = "idle"
    /\ pc'[t] = "idle"
    /\ arg'[t] = arg[t]
    /\ last' # last
    /\ last'.op = "cancel"

\* C37: the manager's cancel(name) behaves as cancel() on the named event:
\* for an existing active event it cancels it and returns normally, the
\* registry lock released exactly once (m.mu is after the return as it was
\* before the call); for an unknown name it returns the unknown-event
\* error; afterwards the registry is usable by create, get, list, remove.
C37_CancelPassthrough ==
    [][ \A t \in Threads :
          /\ CancelEventEnds(t)
                => /\ pc'[t] = "idle"
                   /\ Alive'
                   /\ mLock' = mLock
                   /\ IsRunning(arg[t].obj)
                         => /\ ~IsRunning(arg[t].obj)'
                            /\ toks'[objs[arg[t].obj].cancel].cancelled
          /\ CancelEventMisses(t)
                => /\ last'.errno = "unable to find event"
                   /\ ~EventFound(last'.name)
                   /\ mLock' = mLock
      ]_vars

\* cancel(name) of an active event has ended
C37_CancelOfActiveEnds ==
    /\ last.op = "cancel"
    /\ last.pre
    /\ last.obj # 0
\* the goroutines of event o that no cancel has reached yet
UncancelledTasks(o) == {k \in LiveTasks(o) : ~toks[k].cancelled}

\* C38: under any interleaving of concurrent writes of "1" to one event's
\* control file, at most one background subscription task of the event is
\* live at any time, and the cancellation function of every live task is
\* the one stored in the event: no subscription is left running that cancel
\* can no longer reach.
C38_OneReachableTask ==
    \A o \in Objs :
        /\ Cardinality(UncancelledTasks(o)) <= 1
        /\ \A k \in UncancelledTasks(o) : objs[o].cancel = k
\* no thread is inside a call of the manager
ManagerQuiet == \A t \in Threads : pc[t] = "idle"

\* C39: every manager operation releases every lock it acquired before it
\* returns, on success and on error paths: after run(name) for an unknown
\* name has returned its error the registry lock is free, so a later
\* create(name) completes; after remove(name) has returned, with success or
\* with the is-active error, the event's own lock is free, so a later
\* is-active, set-kind or cancel on that event completes.
C39_LocksReleasedOnReturn ==
    ManagerQuiet =>
        /\ mLock = [w |-> NoThread, r |-> 0]
        /\ \A o \in Objs : MuFree(o)

\* with no call in progress, run(name) for an unknown name has left the
\* registry read-locked
C39_RunLeavesRegistryLocked ==
    ManagerQuiet => ~(last.op = "run" /\ last.obj = 0 /\ mLock.r > 0)

\* with no call in progress, remove(name) has left the event's lock held
C39_RemoveLeavesEventLocked ==
    ManagerQuiet => ~(last.op = "deregister" /\ last.obj # 0
                        /\ ~MuFree(last.obj))
\* ---------------------------------------------------------------------
\* EventLocationDirectory.Lookup, EventHooksDirectory.Lookup

\* some link of the directory carries the name
Linked(links, name) == \E i \in 1 .. Len(links) : links[i].name = name

\* Lookup, under d.mu.RLock: "foundLink = &link" in the range loop, then a
\* symlink node whose data is foundLink.target
DirLookup(t, d, name) ==
    LET links == dirs[d].links IN
    /\ pc[t] = "idle"
    /\ Called
    /\ Return(t, [NoLast EXCEPT
                    !.op = "lookup_link", !.obj = dirs[d].event, !.dir = d,
                    !.name = name,
                    !.errno = IF Linked(links, name) THEN F_OK ELSE ENOENT,
                    !.res = IF Linked(links, name)
                            THEN LoopVar(links).target ELSE <<>>])
    /\ UNCHANGED <<objs, registeredEvents, mLock, toks, nodeVars>>

NextLookup ==
    \/ \E t \in Threads, o \in Objs, n \in {"location", "hooks", "x"} :
          EventDirLookup(t, o, n)
    \/ \E t \in Threads, d \in Dirs, tg \in LocTargets, n \in LinkNames :
          \E evalOk \in BOOLEAN, jvmOk \in BOOLEAN :
             LocSymlinkBegin(t, d, tg, n, evalOk, jvmOk)
    \/ \E t \in Threads : LocSymlinkFinish(t)
    \/ \E t \in Threads, d \in Dirs, n \in LinkNames : LocUnlink(t, d, n)
    \/ \E t \in Threads, d \in Dirs, tg \in HookPaths, n \in LinkNames :
          HooksSymlink(t, d, tg, n)
    \/ \E t \in Threads, d \in Dirs, n \in LinkNames :
          \E e \in {F_OK, ENOTSUP} : HooksUnlink(t, d, n, e)
    \/ \E t \in Threads, d \in Dirs, n \in LinkNames : DirLookup(t, d, n)

SpecLookup == InitLinks /\ [][NextLookup]_vars

\* the positions of the links of directory d that carry the name
NamedLinks(d, name) ==
    {i \in 1 .. Len(dirs[d].links) : dirs[d].links[i].name = name}

\* a call that a thread made and ended in this step, a Lookup or an Unlink
\* of a location/ or hooks/ node
LinkLookupStep == calls' = calls + 1 /\ pc' = pc /\ last'.op = "lookup_link"
LinkUnlinkStep == calls' = calls + 1 /\ pc' = pc /\ last'.op = "unlink"

\* C40: in a location/ or hooks/ directory holding several links,
\* lookup(name) returns a symlink whose target is the target given when
\* that name was linked, not the target of another link of the directory,
\* and unlink(name) removes exactly the link of that name and leaves every
\* other link's name and target unchanged; both return not-found for a
\* name that is not linked.
C40_LinksAddressedByName ==
    [][ /\ LinkLookupStep =>
             IF NamedLinks(last'.dir, last'.name) = {}
             THEN last'.errno = ENOENT
             ELSE /\ last'.errno = F_OK
                  /\ \E i \in NamedLinks(last'.dir, last'.name) :
                        last'.res = dirs[last'.dir].links[i].target
        /\ LinkUnlinkStep =>
             IF NamedLinks(last'.dir, last'.name) = {}
             THEN last'.errno = ENOENT /\ dirs' = dirs
             ELSE /\ last'.errno = F_OK
                  /\ \E i \in NamedLinks(last'.dir, last'.name) :
                        dirs' = [dirs EXCEPT ![last'.dir].links =
                                    RemoveAt(@, i)]
      ]_vars

\* the part of C40 about lookup alone
C40_LookupByName ==
    [][ LinkLookupStep =>
             IF NamedLinks(last'.dir, last'.name) = {}
             THEN last'.errno = ENOENT
             ELSE /\ last'.errno = F_OK
                  /\ \E i \in NamedLinks(last'.dir, last'.name) :
                        last'.res = dirs[last'.dir].links[i].target
      ]_vars

\* the part of C40 about unlink in location/ alone
C40_LocUnlinkByName ==
    [][ (LinkUnlinkStep /\ dirs[last'.dir].kind = "location") =>
             IF NamedLinks(last'.dir, last'.name) = {}
             THEN last'.errno = ENOENT /\ dirs' = dirs
             ELSE /\ last'.errno = F_OK
                  /\ \E i \in NamedLinks(last'.dir, last'.name) :
                        dirs' = [dirs EXCEPT ![last'.dir].links =
                                    RemoveAt(@, i)]
      ]_vars

\* unlink in location/ has removed the first of two links
C40_UnlinkOfFirstLink ==
    /\ last.op = "unlink"
    /\ last.errno = F_OK
    /\ dirs[last.dir].kind = "location"
    /\ Len(dirs[last.dir].links) = 1
    /\ dirs[last.dir].links[1].name # last.name
====
